---- MODULE Spec2Model ----
(***************************************************************************)
(* Segment-editing engine of videomcp (src/src/tools/handlers.ts):         *)
(* time parsing, the timestamp scan of extractTimestampsFromResponse, the  *)
(* remove/keep interval planner of removeSegments and removeEventSegments, *)
(* and the encoder calls and scratch-file lifecycle of the operations that *)
(* run the external encoder.                                               *)
(*                                                                         *)
(* Representation.  A JavaScript string is a sequence of one-character     *)
(* strings.  A JavaScript number is an IEEE 754 double: NaN, an infinity   *)
(* or a sign, an odd mantissa and a binary exponent, with the sums and     *)
(* products rounded to nearest, ties to even, as the machine rounds them.  *)
(* The two zeros are one value: nothing in this code tells them apart.     *)
(***************************************************************************)
EXTENDS Integers, Sequences, FiniteSets, TLC

\* ------------------------------------------------------------ bounds
\* Largest whole-second value of a timestamp token of the model.
MaxSec == 2
\* Largest number of remove intervals handed to removeSegments.
MaxSegs == 2
\* Number of tool calls that may be in flight together.
NumOps == 2
\* Largest number of items (timestamp tokens and other words) of a response text.
MaxItems == 4
\* Largest value of the hours, minutes and seconds fields of a time argument.
MaxField == 3

\* ------------------------------------------------------------ strings
Digits == <<"0", "1", "2", "3", "4", "5", "6", "7", "8", "9">>

IsDigit(c) == \E i \in 1..10 : Digits[i] = c

DigitVal(c) == (CHOOSE i \in 1..10 : Digits[i] = c) - 1

\* WhiteSpace and LineTerminator of ECMAScript: TAB, VT, FF, SP, NBSP, ZWNBSP,
\* U+1680, LF and CR as themselves; the spaces from U+2000 on, which a string
\* of this language cannot hold, by their code points.
IsSpace(c) ==
    c \in {"\t", "", "\f", " ", " ", "﻿", " ", "\n", "\r",
           "U+2000", "U+2001", "U+2002", "U+2003", "U+2004", "U+2005", "U+2006", "U+2007",
           "U+2008", "U+2009", "U+200A", "U+2028", "U+2029", "U+202F", "U+205F", "U+3000"}

RECURSIVE SkipSpace(_)
SkipSpace(s) == IF s # <<>> /\ IsSpace(Head(s)) THEN SkipSpace(Tail(s)) ELSE s

RECURSIVE DropTrailingSpace(_)
DropTrailingSpace(s) ==
    IF s # <<>> /\ IsSpace(s[Len(s)])
    THEN DropTrailingSpace(SubSeq(s, 1, Len(s) - 1))
    ELSE s

\* String.prototype.trim
Trim(s) == DropTrailingSpace(SkipSpace(s))

\* The longest prefix of s made of decimal digits.
RECURSIVE TakeDigits(_)
TakeDigits(s) ==
    IF s # <<>> /\ IsDigit(Head(s)) THEN <<Head(s)>> \o TakeDigits(Tail(s)) ELSE <<>>

\* The decimal digits of a natural number.
RECURSIVE IntChars(_)
IntChars(n) ==
    IF n < 10 THEN <<Digits[n + 1]>> ELSE IntChars(n \div 10) \o <<Digits[(n % 10) + 1]>>

\* String.prototype.split(':')
RECURSIVE SplitColon(_)
SplitColon(s) ==
    IF \A i \in 1..Len(s) : s[i] # ":"
    THEN <<s>>
    ELSE LET k == CHOOSE i \in 1..Len(s) : s[i] = ":" /\ \A j \in 1..(i - 1) : s[j] # ":"
         IN  <<SubSeq(s, 1, k - 1)>> \o SplitColon(SubSeq(s, k + 1, Len(s)))

\* s begins with the characters of word.
StartsWith(s, word) == Len(s) >= Len(word) /\ SubSeq(s, 1, Len(word)) = word

\* ------------------------------------------------------------ natural numbers
\* A natural number of any size: its digits ("limbs") in base 2^15, the
\* least significant first, none for 0.  The operations that carry from limb
\* to limb work on one half of the limbs and then on the other, so that the
\* depth of their recursion is the logarithm of the size; a value that is
\* used more than once is a parameter of the definition that uses it.
Base == 2 ^ 15

\* TRUE.  As the guard of a definition it has the arguments computed before
\* the definition goes on, and not later in the depth of what it calls.
Computed(x) == x = x

Max(a, b) == IF a > b THEN a ELSE b

Min(a, b) == IF a < b THEN a ELSE b

Limb(a, i) == IF i <= Len(a) THEN a[i] ELSE 0

\* a without its leading limbs that are 0.
BigNorm(a) ==
    CASE Computed(a) ->
        IF \A i \in 1..Len(a) : a[i] = 0 THEN <<>>
        ELSE SubSeq(a, 1, CHOOSE i \in 1..Len(a) :
                              a[i] # 0 /\ \A j \in (i + 1)..Len(a) : a[j] = 0)

\* A natural number below 2^31.
BigOf(n) ==
    BigNorm(<<n % Base, (n \div Base) % Base, n \div (Base * Base)>>)

\* One limb and the carry of the value v of a limb position.
LimbOf(v) ==
    CASE Computed(v) ->
        [d |-> <<v % Base>>, c |-> v \div Base]

\* The limbs of a lower and of an upper range, and the carry out of them.
Joined(low, up) ==
    CASE Computed(<<low, up>>) ->
        [d |-> low.d \o up.d, c |-> up.c]

\* Limbs lo..hi of a * k + b * s + carry, and the carry out of them (-1 for
\* a borrow).
RECURSIVE BigLinear(_, _, _, _, _, _, _)
BigLinearUpper(a, k, b, s, lo, hi, low) ==
    CASE Computed(<<a, k, b, s, lo, hi, low>>) ->
        Joined(low, BigLinear(a, k, b, s, ((lo + hi) \div 2) + 1, hi, low.c))

BigLinear(a, k, b, s, lo, hi, carry) ==
    IF lo = hi THEN LimbOf(Limb(a, lo) * k + Limb(b, lo) * s + carry)
    ELSE BigLinearUpper(a, k, b, s, lo, hi, BigLinear(a, k, b, s, lo, (lo + hi) \div 2, carry))

WithCarry(r) ==
    CASE Computed(r) ->
        IF r.c = 0 THEN r.d ELSE Append(r.d, r.c)

BigAdd(a, b) ==
    CASE Computed(<<a, b>>) ->
        IF a = <<>> THEN b
        ELSE IF b = <<>> THEN a
        ELSE WithCarry(BigLinear(a, 1, b, 1, 1, Max(Len(a), Len(b)), 0))

\* a - b for a >= b.
BigSub(a, b) ==
    CASE Computed(<<a, b>>) ->
        IF b = <<>> THEN a ELSE BigNorm(BigLinear(a, 1, b, -1, 1, Len(a), 0).d)

\* a * k for k below 2^15.
BigTimesSmall(a, k) ==
    CASE Computed(<<a, k>>) ->
        IF a = <<>> \/ k = 0 THEN <<>>
        ELSE WithCarry(BigLinear(a, k, <<>>, 0, 1, Len(a), 0))

\* The highest position where a and b, of the same length, differ.
TopDifference(a, b) ==
    CHOOSE k \in 1..Len(a) : a[k] # b[k] /\ \A j \in (k + 1)..Len(a) : a[j] = b[j]

\* -1, 0 or 1 as a is below, equal to or above b.
BigCmp(a, b) ==
    CASE Computed(<<a, b>>) ->
        IF Len(a) < Len(b) THEN -1
        ELSE IF Len(a) > Len(b) THEN 1
        ELSE IF a = b THEN 0
        ELSE IF a[TopDifference(a, b)] < b[TopDifference(a, b)] THEN -1
        ELSE 1

\* a * Base^n.
ShiftLimbs(a, n) == IF a = <<>> THEN <<>> ELSE [i \in 1..n |-> 0] \o a

\* a * b, by the halves of b.
RECURSIVE BigTimes(_, _)
BigTimes(a, b) ==
    CASE Computed(<<a, b>>) ->
        IF Len(b) <= 1 THEN BigTimesSmall(a, Limb(b, 1))
        ELSE BigAdd(BigTimes(a, BigNorm(SubSeq(b, 1, Len(b) \div 2))),
                    ShiftLimbs(BigTimes(a, SubSeq(b, (Len(b) \div 2) + 1, Len(b))), Len(b) \div 2))

\* One limb of a quotient by k, and the remainder.
QuotientOf(v, k) ==
    CASE Computed(<<v, k>>) ->
        [q |-> <<v \div k>>, r |-> v % k]

JoinedQuotient(low, up) ==
    CASE Computed(<<low, up>>) ->
        [q |-> low.q \o up.q, r |-> low.r]

\* Limbs lo..hi of the quotient of (rem * Base^hi + the limbs 1..hi of a) by
\* k, and the remainder left below limb lo.
RECURSIVE BigDivRange(_, _, _, _, _)
BigDivLower(a, k, lo, hi, up) ==
    CASE Computed(<<a, k, lo, hi, up>>) ->
        JoinedQuotient(BigDivRange(a, k, lo, (lo + hi) \div 2, up.r), up)

BigDivRange(a, k, lo, hi, rem) ==
    IF lo = hi THEN QuotientOf(rem * Base + a[lo], k)
    ELSE BigDivLower(a, k, lo, hi, BigDivRange(a, k, ((lo + hi) \div 2) + 1, hi, rem))

NormQuotient(d) ==
    CASE Computed(d) ->
        [q |-> BigNorm(d.q), r |-> d.r]

\* Quotient and remainder of a by k, for k from 1 to 2^15.
BigDivSmall(a, k) ==
    CASE Computed(<<a, k>>) ->
        IF a = <<>> THEN [q |-> <<>>, r |-> 0]
        ELSE NormQuotient(BigDivRange(a, k, 1, Len(a), 0))

\* a * 2^n.
BigShl(a, n) ==
    CASE Computed(<<a, n>>) ->
        ShiftLimbs(BigTimesSmall(a, 2 ^ (n % 15)), n \div 15)

\* The whole part of a / 2^n.
BigShr(a, n) ==
    CASE Computed(<<a, n>>) ->
        IF n \div 15 >= Len(a) THEN <<>>
        ELSE BigDivSmall(SubSeq(a, (n \div 15) + 1, Len(a)), 2 ^ (n % 15)).q

\* Bit i of a, bit 0 being the lowest.
BigBit(a, i) == (Limb(a, (i \div 15) + 1) \div (2 ^ (i % 15))) % 2

\* The bits of a below bit n are all 0.
BigLowZero(a, n) ==
    /\ \A j \in 1..(n \div 15) : Limb(a, j) = 0
    /\ Limb(a, (n \div 15) + 1) % (2 ^ (n % 15)) = 0

RECURSIVE BitLen(_)
BitLen(n) == IF n = 0 THEN 0 ELSE 1 + BitLen(n \div 2)

\* The number of bits of a.
BigLen(a) ==
    CASE Computed(a) ->
        IF a = <<>> THEN 0 ELSE 15 * (Len(a) - 1) + BitLen(a[Len(a)])

\* The number of 0 bits below the lowest 1 bit of a, for a # 0.
BigTrailingZeros(a) ==
    CASE Computed(a) ->
        CHOOSE i \in 0..(BigLen(a) - 1) : BigBit(a, i) = 1 /\ BigLowZero(a, i)

\* a * a * k for k below 2^15.
SquareTimes(a, k) ==
    CASE Computed(a) ->
        BigTimesSmall(BigTimes(a, a), k)

\* 10^k
RECURSIVE BigPow10(_)
BigPow10(k) ==
    IF k <= 4 THEN <<10 ^ k>>
    ELSE SquareTimes(BigPow10(k \div 2), IF k % 2 = 0 THEN 1 ELSE 10)

\* a * 10^k
BigTimesPow10(a, k) ==
    CASE Computed(<<a, k>>) ->
        IF k = 0 THEN a ELSE BigTimes(BigPow10(k), a)

\* A quotient, and whether a remainder was cut off (or something is cut
\* already).
CutQuotient(d, cut) ==
    CASE Computed(<<d, cut>>) ->
        [q |-> d.q, cut |-> cut \/ d.r # 0]

\* The whole part of a / 10^k, and whether anything was cut off, dividing by
\* 10^4 at most at a time.
RECURSIVE BigDivPow10(_, _, _)
BigDivPow10Rest(h, k) ==
    CASE Computed(<<h, k>>) ->
        BigDivPow10(h.q, k, h.cut)

BigDivPow10(a, k, cut) ==
    CASE Computed(<<a, k, cut>>) ->
        IF k = 0 THEN [q |-> a, cut |-> cut]
        ELSE IF k <= 4 THEN CutQuotient(BigDivSmall(a, 10 ^ k), cut)
        ELSE BigDivPow10Rest(BigDivPow10(a, k \div 2, cut), k - (k \div 2))

\* The value of at most four decimal digits.
RECURSIVE SmallOfDigits(_)
SmallOfDigits(d) ==
    IF d = <<>> THEN 0
    ELSE SmallOfDigits(SubSeq(d, 1, Len(d) - 1)) * 10 + DigitVal(d[Len(d)])

\* a * 10^4 + k for a k below 10^4.
FourMore(a, k) ==
    CASE Computed(<<a, k>>) ->
        IF a = <<>> THEN BigOf(k)
        ELSE WithCarry(BigLinear(a, 10000, <<k>>, 1, 1, Len(a), 0))

\* The value of a sequence of decimal digits, four digits at a time.
RECURSIVE BigOfDigits(_)
BigOfDigits(d) ==
    CASE Computed(d) ->
        IF Len(d) <= 4 THEN BigOf(SmallOfDigits(d))
        ELSE FourMore(BigOfDigits(SubSeq(d, 1, Len(d) - 4)),
                      SmallOfDigits(SubSeq(d, Len(d) - 3, Len(d))))

\* The four decimal digits of a number below 10^4.
FourDigits(r) ==
    <<Digits[(r \div 1000) + 1], Digits[((r \div 100) % 10) + 1],
      Digits[((r \div 10) % 10) + 1], Digits[(r % 10) + 1]>>

\* The decimal digits of a, four at a time from the last, with zeros before
\* the first.
RECURSIVE BigDigitsBy4(_)
FourAfter(d) ==
    CASE Computed(d) ->
        BigDigitsBy4(d.q) \o FourDigits(d.r)

BigDigitsBy4(a) ==
    CASE Computed(a) ->
        IF a = <<>> THEN <<>> ELSE FourAfter(BigDivSmall(a, 10000))

RECURSIVE DropLeadingZeros(_)
DropLeadingZeros(d) == IF Len(d) > 1 /\ Head(d) = "0" THEN DropLeadingZeros(Tail(d)) ELSE d

\* The decimal digits of a, "0" for 0.
BigDigits(a) ==
    CASE Computed(a) ->
        IF a = <<>> THEN <<"0">> ELSE DropLeadingZeros(BigDigitsBy4(a))

\* No less than the number of decimal digits of a, and no more than one more.
DigitsBound(a) == ((BigLen(a) * 30103) \div 100000) + 1

\* ------------------------------------------------------------ numbers
\* An IEEE 754 double: NaN, an infinity, or (-1)^neg * m * 2^e with m a
\* natural number of at most 53 bits that is odd or 0 (and e = 0 for 0).
NaN == [nan |-> TRUE, inf |-> FALSE, neg |-> FALSE, m |-> <<>>, e |-> 0]

Infinity(neg) == [nan |-> FALSE, inf |-> TRUE, neg |-> neg, m |-> <<>>, e |-> 0]

Zero == [nan |-> FALSE, inf |-> FALSE, neg |-> FALSE, m |-> <<>>, e |-> 0]

\* m * 2^e for an m with z trailing zero bits.
CanonBy(neg, m, e, z) ==
    CASE Computed(<<neg, m, e, z>>) ->
        [nan |-> FALSE, inf |-> FALSE, neg |-> neg, m |-> BigShr(m, z), e |-> e + z]

\* m * 2^e with the trailing zero bits of m moved to the exponent.
Canon(neg, m, e) ==
    CASE Computed(<<neg, m, e>>) ->
        IF m = <<>> THEN Zero ELSE CanonBy(neg, m, e, BigTrailingZeros(m))

\* r * 2^e for an r of at most 53 bits, an infinity when it is out of range.
Finite(neg, r, e) ==
    CASE Computed(<<neg, r, e>>) ->
        IF BigLen(r) + e > 1024 THEN Infinity(neg) ELSE Canon(neg, r, e)

\* q * 2^e, or the next number up when the part cut off from q was a half
\* and more, or a half and q is odd.
RoundTo(neg, q, e, half, more) ==
    CASE Computed(<<neg, q, e, half, more>>) ->
        Finite(neg, IF half /\ (more \/ BigBit(q, 0) = 1) THEN BigAdd(q, <<1>>) ELSE q, e)

\* n * 2^e with the lowest shift bits of n rounded away.
RoundBy(neg, n, e, sticky, shift) ==
    CASE Computed(<<neg, n, e, sticky, shift>>) ->
        RoundTo(neg, BigShr(n, shift), e + shift,
                shift > 0 /\ BigBit(n, shift - 1) = 1,
                sticky \/ (shift > 0 /\ ~BigLowZero(n, shift - 1)))

\* The double nearest to (n + d) * 2^e, ties to even, where 0 <= d < 1 and
\* d > 0 exactly when sticky (n then has 55 bits or more): 53 bits are kept,
\* fewer below the least exponent -1074.
RoundToDouble(neg, n, e, sticky) ==
    CASE Computed(<<neg, n, e, sticky>>) ->
        RoundBy(neg, n, e, sticky, Max(Max(BigLen(n) - 53, (-1074) - e), 0))

\* The double of an integer below 2^31 in size.
Num(n) == Canon(n < 0, BigOf(IF n < 0 THEN -n ELSE n), 0)

\* -1, 0 or 1 as |a| is below, equal to or above |b|, for finite a and b.
MagCmp(a, b) ==
    CASE Computed(<<a, b>>) ->
        IF a.m = <<>> \/ b.m = <<>>
        THEN (IF a.m = b.m THEN 0 ELSE IF a.m = <<>> THEN -1 ELSE 1)
        ELSE BigCmp(BigShl(a.m, a.e - Min(a.e, b.e)), BigShl(b.m, b.e - Min(a.e, b.e)))

\* The double nearest to (-1)^r.neg * r.n * 2^e.
RoundSigned(r, e) ==
    CASE Computed(<<r, e>>) ->
        RoundToDouble(r.neg, r.n, e, FALSE)

\* (-1)^xneg * x * 2^e + (-1)^yneg * y * 2^e
AddAligned(xneg, x, yneg, y, e) ==
    CASE Computed(<<xneg, x, yneg, y, e>>) ->
        RoundSigned(IF xneg = yneg THEN [neg |-> xneg, n |-> BigAdd(x, y)]
                    ELSE IF BigCmp(x, y) >= 0 THEN [neg |-> xneg, n |-> BigSub(x, y)]
                    ELSE [neg |-> yneg, n |-> BigSub(y, x)],
                    e)

\* a + b
NumAdd(a, b) ==
    CASE Computed(<<a, b>>) ->
        IF a.nan \/ b.nan THEN NaN
        ELSE IF a.inf /\ b.inf THEN (IF a.neg = b.neg THEN a ELSE NaN)
        ELSE IF a.inf THEN a
        ELSE IF b.inf THEN b
        ELSE IF a.m = <<>> THEN b
        ELSE IF b.m = <<>> THEN a
        ELSE AddAligned(a.neg, BigShl(a.m, a.e - Min(a.e, b.e)),
                        b.neg, BigShl(b.m, b.e - Min(a.e, b.e)), Min(a.e, b.e))

\* a - b
NumSub(a, b) ==
    CASE Computed(<<a, b>>) ->
        NumAdd(a, [b EXCEPT !.neg = ~b.nan /\ ~b.neg /\ (b.inf \/ b.m # <<>>)])

\* a * b
NumMul(a, b) ==
    CASE Computed(<<a, b>>) ->
        IF a.nan \/ b.nan THEN NaN
        ELSE IF a.inf \/ b.inf
        THEN (IF (~a.inf /\ a.m = <<>>) \/ (~b.inf /\ b.m = <<>>)
              THEN NaN ELSE Infinity(a.neg # b.neg))
        ELSE RoundToDouble(a.neg # b.neg, BigTimes(a.m, b.m), a.e + b.e, FALSE)

\* a * k for an integer k
NumTimes(a, k) == NumMul(a, Num(k))

\* a < b
NumLess(a, b) ==
    CASE Computed(<<a, b>>) ->
        IF a.nan \/ b.nan THEN FALSE
        ELSE IF a = b THEN FALSE
        ELSE IF a.neg # b.neg THEN a.neg
        ELSE IF a.inf THEN a.neg
        ELSE IF b.inf THEN ~a.neg
        ELSE IF a.neg THEN MagCmp(a, b) > 0
        ELSE MagCmp(a, b) < 0

\* a <= b
NumLeq(a, b) ==
    CASE Computed(<<a, b>>) ->
        ~a.nan /\ ~b.nan /\ (a = b \/ NumLess(a, b))

\* The double nearest to (d.q + a fraction) * 2^e, the fraction being more
\* than 0 exactly when d.cut.
RoundCut(neg, d, e) ==
    CASE Computed(<<neg, d, e>>) ->
        RoundToDouble(neg, d.q, e, d.cut)

\* n * 10^e10 as a quotient q and whether a fraction was cut off from it,
\* times 2^e: n * 10^e10 itself, or the quotient by 10^-e10 of n with
\* 4 * -e10 + 64 more bits, which leaves 55 bits or more to round.
Scaled(n, e10) ==
    CASE Computed(<<n, e10>>) ->
        IF e10 >= 0 THEN [q |-> BigTimesPow10(n, e10), cut |-> FALSE]
        ELSE BigDivPow10(BigShl(n, 4 * (-e10) + 64), -e10, FALSE)

\* The double nearest to n * 10^e10, n having len decimal digits or one
\* fewer.
ScaleDecimal(neg, n, len, e10) ==
    CASE Computed(<<neg, n, len, e10>>) ->
        IF n = <<>> THEN Zero
        ELSE IF len + e10 > 400 THEN Infinity(neg)
        ELSE IF len + e10 < -400 THEN Zero
        ELSE RoundCut(neg, Scaled(n, e10), IF e10 >= 0 THEN 0 ELSE -(4 * (-e10) + 64))

\* The double nearest to digits * 10^e10, digits being decimal digits.
DecimalToDouble(neg, digits, e10) ==
    CASE Computed(<<neg, digits, e10>>) ->
        ScaleDecimal(neg, BigOfDigits(DropLeadingZeros(digits)), Len(DropLeadingZeros(digits)), e10)

\* The sign and the unsigned rest of a numeric literal after leading white space.
Negative(s) == s # <<>> /\ Head(s) = "-"

Unsigned(s) == IF s # <<>> /\ (Head(s) = "-" \/ Head(s) = "+") THEN Tail(s) ELSE s

\* parseInt(s, 10): leading white space, a sign, then the longest digit prefix.
parseInt(s) ==
    CASE Computed(s) ->
        LET t == SkipSpace(s)
            d == TakeDigits(Unsigned(t))
        IN  IF d = <<>> THEN NaN ELSE DecimalToDouble(Negative(t), d, 0)

\* The value of the digits of an exponent, no more than 100000.
RECURSIVE ExponentValue(_, _)
ExponentValue(d, acc) ==
    IF d = <<>> THEN acc
    ELSE ExponentValue(Tail(d), Min(acc * 10 + DigitVal(Head(d)), 100000))

\* The exponent part at the head of s: e or E, a sign or none, and digits;
\* 0 when s does not begin with one.
ExponentPart(s) ==
    IF s = <<>> \/ (Head(s) # "e" /\ Head(s) # "E") THEN 0
    ELSE LET d == TakeDigits(Unsigned(Tail(s)))
         IN  IF Negative(Tail(s)) THEN -ExponentValue(d, 0) ELSE ExponentValue(d, 0)

\* Mutation: the seconds are read as a whole number.
parseFloat_Whole(s) == parseInt(s)

\* parseFloat(s): leading white space, a sign, then Infinity or the longest
\* prefix that is a decimal literal (digits, a fraction, an exponent); NaN
\* when there is none.
parseFloat(s) ==
    CASE Computed(s) ->
        LET t == SkipSpace(s)
            u == Unsigned(t)
            ip == TakeDigits(u)
            afterInt == SubSeq(u, Len(ip) + 1, Len(u))
            dot == afterInt # <<>> /\ Head(afterInt) = "."
            fp == IF dot THEN TakeDigits(Tail(afterInt)) ELSE <<>>
            afterFrac == IF dot THEN SubSeq(afterInt, Len(fp) + 2, Len(afterInt)) ELSE afterInt
        IN  IF StartsWith(u, <<"I", "n", "f", "i", "n", "i", "t", "y">>) THEN Infinity(Negative(t))
            ELSE IF ip = <<>> /\ fp = <<>> THEN NaN
            ELSE DecimalToDouble(Negative(t), ip \o fp, ExponentPart(afterFrac) - Len(fp))

\* The whole part of num / 2^den2 / 10^den10, and whether a fraction was cut
\* off.
ScaledBy(num, den2, den10) ==
    CASE Computed(<<num, den2, den10>>) ->
        BigDivPow10(BigShr(num, den2), den10, ~BigLowZero(num, den2))

\* The whole part of 2 * |x| * 10^j for a finite x, and whether a fraction
\* was cut off.
ScaledTwice(x, j) ==
    CASE Computed(<<x, j>>) ->
        ScaledBy(BigTimesPow10(BigShl(x.m, 1 + Max(x.e, 0)), Max(j, 0)), Max(-x.e, 0), Max(-j, 0))

\* |x| * 10^j rounded to the nearest integer, a half upwards.
Nearest(x, j) ==
    CASE Computed(<<x, j>>) ->
        BigShr(BigAdd(ScaledTwice(x, j).q, <<1>>), 1)

\* |x| >= 10^q for a finite x # 0, p10 being 10^|q|.
AtLeastPow10(x, q, p10) ==
    CASE Computed(<<x, q, p10>>) ->
        BigCmp(BigShl(IF q < 0 THEN BigTimes(p10, x.m) ELSE x.m, Max(x.e, 0)),
               BigShl(IF q < 0 THEN <<1>> ELSE p10, Max(-x.e, 0))) >= 0

\* An integer p with 10^p <= 2^b < 10^(p + 2) / 2, for b from -1100 to 1100.
LogBelow(b) ==
    IF b >= 0 THEN (b * 30102) \div 100000
    ELSE -((((-b) * 30103) + 99999) \div 100000)

PointAfter(x, p) ==
    CASE Computed(<<x, p>>) ->
        IF AtLeastPow10(x, p + 1, BigPow10(Max(p + 1, -(p + 1)))) THEN p + 2 ELSE p + 1

\* The number n of digits before the decimal point of |x|, 10^(n - 1) <=
\* |x| < 10^n (0 or less when |x| < 1: minus the number of zeros after the
\* point), for a finite x # 0; |x| is 2^b or more and less than 2^(b + 1)
\* for the b below.
PointPosition(x) ==
    CASE Computed(x) ->
        PointAfter(x, LogBelow(BigLen(x.m) + x.e - 1))

RECURSIVE DropTrailingZeros(_)
DropTrailingZeros(d) ==
    IF Len(d) > 1 /\ d[Len(d)] = "0" THEN DropTrailingZeros(SubSeq(d, 1, Len(d) - 1)) ELSE d

Abs(x) ==
    CASE Computed(x) ->
        [x EXCEPT !.neg = FALSE]

\* Digits without their trailing zeros, and the position of the decimal
\* point for digits * 10^e10.
Placed(d, e10) ==
    CASE Computed(<<d, e10>>) ->
        [d |-> DropTrailingZeros(d), n |-> Len(d) + e10]

\* The two integers around |x| * 10^j: |x| * 10^j is lo and a fraction,
\* which is a half or more when above and has more after that when cut.
Around(t) ==
    CASE Computed(t) ->
        [lo |-> BigShr(t.q, 1), hi |-> BigAdd(BigShr(t.q, 1), <<1>>),
         above |-> BigBit(t.q, 0) = 1, cut |-> t.cut]

\* c * 10^e10 reads back as |x|.
ReadsBack(x, c, e10) ==
    CASE Computed(<<x, c, e10>>) ->
        ScaleDecimal(FALSE, c, DigitsBound(c), e10) = Abs(x)

RECURSIVE EachReadsBack(_, _, _)
EachReadsBack(x, cs, e10) ==
    IF cs = <<>> THEN <<>>
    ELSE <<ReadsBack(x, Head(cs), e10)>> \o EachReadsBack(x, Tail(cs), e10)

\* Of c.lo and c.hi the one that reads back as x, the nearer one when both
\* or none do, the even one when they are as near.
Picked(c, reads, k) ==
    CASE Computed(<<c, reads, k>>) ->
        [k |-> k, reads |-> reads[1] \/ reads[2],
         pick |-> IF reads[1] # reads[2] THEN (IF reads[1] THEN c.lo ELSE c.hi)
                  ELSE IF c.above /\ (c.cut \/ BigBit(c.lo, 0) = 1) THEN c.hi
                  ELSE c.lo]

PickedOf(x, c, e10, k) ==
    CASE Computed(<<x, c, e10, k>>) ->
        Picked(c, EachReadsBack(x, <<c.lo, c.hi>>, e10), k)

\* The number of k digits for x, the decimal point of x being after n digits.
ShortestChoice(x, n, k) ==
    CASE Computed(<<x, n, k>>) ->
        PickedOf(x, Around(ScaledTwice(x, k - n)), n - k, k)

\* The number of the fewest digits, from lo to hi, that reads back as x, hi
\* digits doing so; when k digits do, so do k + 1, and the search goes by
\* halves, c being the number of (lo + hi) \div 2 digits.
RECURSIVE ShortestFrom(_, _, _, _)
ShortestAmong(x, n, lo, hi, c) ==
    CASE Computed(<<x, n, lo, hi, c>>) ->
        IF lo = hi THEN c
        ELSE IF c.reads THEN ShortestFrom(x, n, lo, (lo + hi) \div 2)
        ELSE ShortestFrom(x, n, ((lo + hi) \div 2) + 1, hi)

ShortestFrom(x, n, lo, hi) ==
    ShortestAmong(x, n, lo, hi, ShortestChoice(x, n, (lo + hi) \div 2))

PlacedChoice(c, n) ==
    CASE Computed(<<c, n>>) ->
        Placed(BigDigits(c.pick), n - c.k)

\* The fewest digits that read back as x (17 always do), and the position
\* of the decimal point after them.
ShortestDigits(x, n) ==
    CASE Computed(<<x, n>>) ->
        PlacedChoice(ShortestFrom(x, n, 1, 17), n)

\* n zeros, none when n is not positive.
Zeros(n) == [i \in 1..Max(n, 0) |-> "0"]

\* Number::toString of the digits s.d with the decimal point after s.n of
\* them.
DigitsToString(s) ==
    CASE Computed(s) ->
        IF Len(s.d) <= s.n /\ s.n <= 21 THEN s.d \o Zeros(s.n - Len(s.d))
        ELSE IF 0 < s.n /\ s.n <= 21
        THEN SubSeq(s.d, 1, s.n) \o <<".">> \o SubSeq(s.d, s.n + 1, Len(s.d))
        ELSE IF -6 < s.n /\ s.n <= 0 THEN <<"0", ".">> \o Zeros(-s.n) \o s.d
        ELSE (IF Len(s.d) = 1 THEN s.d ELSE <<s.d[1], ".">> \o Tail(s.d))
             \o (IF s.n >= 1 THEN <<"e", "+">> \o IntChars(s.n - 1)
                 ELSE <<"e", "-">> \o IntChars(1 - s.n))

\* String(x) of a number.
NumberToString(x) ==
    CASE Computed(x) ->
        IF x.nan THEN <<"N", "a", "N">>
        ELSE IF x.inf
        THEN (IF x.neg THEN <<"-">> ELSE <<>>) \o <<"I", "n", "f", "i", "n", "i", "t", "y">>
        ELSE IF x.m = <<>> THEN <<"0">>
        ELSE (IF x.neg THEN <<"-">> ELSE <<>>)
             \o DigitsToString(ShortestDigits(x, PointPosition(x)))

\* Seven digits or more with a point before the last six.
PointBeforeSix(d) ==
    CASE Computed(d) ->
        SubSeq(d, 1, Len(d) - 6) \o <<".">> \o SubSeq(d, Len(d) - 5, Len(d))

PadToSeven(d) ==
    CASE Computed(d) ->
        Zeros(7 - Len(d)) \o d

\* Number.prototype.toFixed(6): the string of the number itself when it is
\* not finite or is 10^21 or more in size.
toFixed6(x) ==
    CASE Computed(x) ->
        IF x.nan \/ x.inf \/ (x.m # <<>> /\ PointPosition(x) > 21) THEN NumberToString(x)
        ELSE (IF x.neg THEN <<"-">> ELSE <<>>)
             \o PointBeforeSix(PadToSeven(BigDigits(Nearest(x, 6))))

Pad3(n) == <<Digits[(n \div 100) + 1], Digits[((n \div 10) % 10) + 1], Digits[(n % 10) + 1]>>

\* The fraction of a literal with ms thousandths, without trailing zeros.
FracChars(ms) ==
    IF ms = 0 THEN <<>>
    ELSE IF ms % 100 = 0 THEN <<".", Digits[(ms \div 100) + 1]>>
    ELSE IF ms % 10 = 0 THEN <<".", Digits[(ms \div 100) + 1], Digits[((ms \div 10) % 10) + 1]>>
    ELSE <<".">> \o Pad3(ms)

\* ------------------------------------------------------------ JavaScript values
JsUndefined == [t |-> "undefined", s |-> <<>>]

JsNull == [t |-> "null", s |-> <<>>]

JsStr(s) == [t |-> "string", s |-> s]

JsNum(n) == [t |-> "number", s |-> <<>>, n |-> n]

\* Line 25: String(timeStr).
StringOf(x) == IF x.t = "number" THEN NumberToString(x.n) ELSE x.s

\* ------------------------------------------------------------ parseTimeToSeconds
Ok(n) == [ok |-> TRUE, v |-> n, err |-> "none"]

Err(e) == [ok |-> FALSE, v |-> Zero, err |-> e]

\* Lines 35-37 and 39-40: totalSeconds += parseInt(part, 10) * unit for each
\* part before the last, then totalSeconds += parseFloat(part) for the last.
RECURSIVE AddParts(_, _, _)
AddParts(totalSeconds, timeParts, units) ==
    CASE Computed(<<totalSeconds, timeParts, units>>) ->
        IF Len(timeParts) = 1 THEN NumAdd(totalSeconds, parseFloat(timeParts[1]))
        ELSE AddParts(NumAdd(totalSeconds, NumTimes(parseInt(Head(timeParts)), Head(units))),
                      Tail(timeParts), Tail(units))

\* Lines 33-40: totalSeconds, from 0, with the hours, minutes and seconds
\* of three parts or the minutes and seconds of two added to it.
TotalSeconds(timeParts) ==
    AddParts(Zero, timeParts, IF Len(timeParts) = 3 THEN <<3600, 60>> ELSE <<60>>)

\* Lines 44-47 and 50-53: NaN is thrown, any other number returned.
ThrowNaN(n, err) ==
    CASE Computed(n) ->
        IF n.nan THEN Err(err) ELSE Ok(n)

\* Lines 32-47: the parts of a time with colons.
ColonTime(timeParts) ==
    CASE Computed(timeParts) ->
        IF Len(timeParts) # 3 /\ Len(timeParts) # 2 THEN Err("InvalidTimeFormat")
        ELSE ThrowNaN(TotalSeconds(timeParts), "InvalidTimeFormat")

\* Lines 27-54: the trimmed string.
TrimmedTime(time) ==
    CASE Computed(time) ->
        IF time = <<>> THEN Err("EmptyTime")
        ELSE IF \E i \in 1..Len(time) : time[i] = ":" THEN ColonTime(SplitColon(time))
        ELSE ThrowNaN(parseFloat(time), "InvalidTimeFormat")

\* Lines 25-54: the string form of the input, trimmed and parsed.
parseTimeString(str) == TrimmedTime(Trim(str))

\* ------------------------------------------------------------ time strings
\* removeSegments line 222: the initial cursor.
ZeroTime == <<"0", "0", ":", "0", "0", ":", "0", "0">>

Two(n) == <<Digits[(n \div 10) + 1], Digits[(n % 10) + 1]>>

\* An HH:MM:SS token as the timestamp pattern of line 173 matches it.
Token(h, m, sec) == Two(h) \o <<":">> \o Two(m) \o <<":">> \o Two(sec)

TimeTokens ==
    {Token(0, 0, sec) : sec \in 0..MaxSec} \cup {Token(0, 0, 1) \o <<".", "5">>}

\* A token past the first minute with thousandths: line 37 adds 60 and 1.029
\* to the double below the one the decimal string "61.029" reads as.
LateToken == Token(0, 1, 1) \o <<".", "0", "2", "9">>

\* format.duration as the probe reports it, a decimal string: a source shorter
\* than most tokens, one longer than every token but the late one, a
\* fractional one, and one that ends where the late token points.
WholeSeconds(d) == JsStr(IntChars(d) \o <<".", "0", "0", "0", "0", "0", "0">>)

Durations ==
    {WholeSeconds(1), WholeSeconds(MaxSec + 1),
     JsStr(<<"2", ".", "5", "0", "0", "0", "0", "0">>),
     JsStr(<<"6", "1", ".", "0", "2", "9", "0", "0", "0">>)}

\* The time strings the inputs are made of.
KnownTimes ==
    {ZeroTime, LateToken, WholeSeconds(MaxSec).s, <<"N", "/", "A">>, IntChars(MaxSec) \o <<"x">>,
     IntChars(MaxSec) \o <<".", "0", "0", "0", "0", "0", "0", "1">>}
        \cup TimeTokens \cup {d.s : d \in Durations}

\* parseTimeToSeconds depends on its argument alone, so what it returns or
\* throws for each of the known time strings is computed once and looked up
\* after that; for any other string it is computed on the spot.
RECURSIVE Parsed(_, _)
KnownParses == [s \in KnownTimes |-> Parsed(s, FALSE)]

Parsed(s, lookUp) ==
    IF lookUp /\ s \in KnownTimes THEN KnownParses[s] ELSE parseTimeString(s)

\* Lines 20-55: undefined and null are refused, anything else is read as a
\* string.
parseTimeToSeconds(input) ==
    IF input.t = "undefined" \/ input.t = "null"
    THEN Err("MissingTime")
    ELSE Parsed(StringOf(input), TRUE)

\* The seconds when the string parses, and whether it does.
Secs(s) == Parsed(s, TRUE).v

Parses(s) == Parsed(s, TRUE).ok

\* ------------------------------------------------------------ extractTimestampsFromResponse
Letters ==
    {"a", "b", "c", "d", "e", "f", "g", "h", "i", "j", "k", "l", "m", "n", "o", "p", "q",
     "r", "s", "t", "u", "v", "w", "x", "y", "z", "A", "B", "C", "D", "E", "F", "G", "H",
     "I", "J", "K", "L", "M", "N", "O", "P", "Q", "R", "S", "T", "U", "V", "W", "X", "Y", "Z"}

\* A character of the class \w.
IsWordChar(c) == IsDigit(c) \/ c \in Letters \/ c = "_"

WordAt(s, i) == i >= 1 /\ i <= Len(s) /\ IsWordChar(s[i])

\* \b between the characters i - 1 and i of s.
WordBoundary(s, i) == WordAt(s, i - 1) # WordAt(s, i)

DigitAt(s, i) == i >= 1 /\ i <= Len(s) /\ IsDigit(s[i])

CharAt(s, i, c) == i >= 1 /\ i <= Len(s) /\ s[i] = c

\* \d{2}:\d{2}:\d{2} at position i.
ClockAt(s, i) ==
    /\ DigitAt(s, i) /\ DigitAt(s, i + 1) /\ CharAt(s, i + 2, ":")
    /\ DigitAt(s, i + 3) /\ DigitAt(s, i + 4) /\ CharAt(s, i + 5, ":")
    /\ DigitAt(s, i + 6) /\ DigitAt(s, i + 7)

\* Line 173: the position after a match of the timestamp pattern that starts
\* at i, 0 when there is none there.  The optional fraction is taken when the
\* match can end in a word boundary after all of its digits, and given up
\* otherwise.
MatchEnd(s, i) ==
    IF ~(WordBoundary(s, i) /\ ClockAt(s, i)) THEN 0
    ELSE LET j == i + 8
             frac == IF CharAt(s, j, ".") THEN TakeDigits(SubSeq(s, j + 1, Len(s))) ELSE <<>>
             e == j + 1 + Len(frac)
         IN  IF frac # <<>> /\ WordBoundary(s, e) THEN e
             ELSE IF WordBoundary(s, j) THEN j
             ELSE 0

\* Line 174: String.prototype.match with the g flag, from position i on: the
\* matches from left to right, each search starting where the last match ended.
RECURSIVE MatchAll(_, _)
MatchAll(s, i) ==
    IF i > Len(s) THEN <<>>
    ELSE IF MatchEnd(s, i) > 0
         THEN <<SubSeq(s, i, MatchEnd(s, i) - 1)>> \o MatchAll(s, MatchEnd(s, i))
         ELSE MatchAll(s, i + 1)

\* Mutation: the pairs overlap, each match ending one pair and starting the next.
RECURSIVE PairUp_Sliding(_, _)
PairUp_Sliding(m, i) ==
    IF i + 1 >= Len(m) THEN <<>>
    ELSE <<[startTime |-> m[i + 1], endTime |-> m[i + 2]]>> \o PairUp_Sliding(m, i + 1)

\* Lines 178-182: the loop over the matches, two at a time, from index i.
RECURSIVE PairUp(_, _)
PairUp(m, i) ==
    IF i >= Len(m) THEN <<>>
    ELSE (IF i + 1 < Len(m)
          THEN <<[startTime |-> m[i + 1], endTime |-> m[i + 2]]>>
          ELSE <<>>) \o PairUp(m, i + 2)

\* Mutation: a lone timestamp is paired with itself.
PairsOf_LoneToken(m) ==
    IF Len(m) = 1 THEN <<[startTime |-> m[1], endTime |-> m[1]]>> ELSE PairUp(m, 0)

\* Lines 177-189.
PairsOf(m) == IF Len(m) >= 2 THEN PairUp(m, 0) ELSE <<>>

\* ------------------------------------------------------------ planner
Segment(a, b) == [startTime |-> a, endTime |-> b]

\* Array.prototype.sort with the comparator of line 202, the difference of
\* the parsed start times: a stable sort, x going before the first element
\* that the comparator puts after it.
RECURSIVE InsertByStart(_, _)
InsertByStart(sorted, x) ==
    IF sorted = <<>> THEN <<x>>
    ELSE IF NumLess(NumSub(Secs(x.startTime), Secs(Head(sorted).startTime)), Zero) THEN <<x>> \o sorted
    ELSE <<Head(sorted)>> \o InsertByStart(Tail(sorted), x)

\* Mutation: the sort of line 202 left out.
SortSegments_Unsorted(segs) == segs

RECURSIVE SortSegments(_)
SortSegments(segs) ==
    IF segs = <<>> THEN <<>>
    ELSE InsertByStart(SortSegments(SubSeq(segs, 1, Len(segs) - 1)), segs[Len(segs)])

\* Line 218: parseTimeToSeconds(duration).toFixed(6) of a duration string.
\* KnownTotals holds the value for the strings the inputs are made of, so
\* that it is computed once for each.
RECURSIVE Fixed(_, _)
KnownTotals == [s \in KnownTimes |-> Fixed(s, FALSE)]

Fixed(s, lookUp) ==
    IF lookUp /\ s \in KnownTimes THEN KnownTotals[s] ELSE toFixed6(Parsed(s, TRUE).v)

\* Line 218: the probed duration as the string the walk compares against.
TotalDuration(duration) == Fixed(StringOf(duration), TRUE)

\* Lines 224-229: one iteration of the walk over the sorted remove intervals.
WalkStep(cursor, parts, segment) ==
    [prevEnd |-> segment.endTime,
     partsToKeep |->
        IF NumLess(Secs(cursor), Secs(segment.startTime))
        THEN Append(parts, [start |-> cursor, end |-> segment.startTime])
        ELSE parts]

\* Lines 231-233: the part after the last remove interval.
WalkTail(cursor, parts, total) ==
    IF NumLess(Secs(cursor), Secs(total))
    THEN Append(parts, [start |-> cursor, end |-> total])
    ELSE parts

RECURSIVE Walk(_, _, _)
Walk(cursor, parts, segs) ==
    IF segs = <<>> THEN [prevEnd |-> cursor, partsToKeep |-> parts]
    ELSE LET st == WalkStep(cursor, parts, Head(segs))
         IN  Walk(st.prevEnd, st.partsToKeep, Tail(segs))

\* Lines 220-233 on the sorted remove intervals.
PartsToKeep(sorted, total) ==
    LET st == Walk(ZeroTime, <<>>, sorted)
    IN  WalkTail(st.prevEnd, st.partsToKeep, total)

\* Mutation: the part after the kept interval is not removed.
SegmentsToRemove_NoTail(segmentToKeep, total) ==
    IF NumLess(Secs(ZeroTime), Secs(segmentToKeep.startTime))
    THEN <<Segment(ZeroTime, segmentToKeep.startTime)>>
    ELSE <<>>

\* removeEventSegments lines 304-310: everything before and after the kept
\* interval.
SegmentsToRemove(segmentToKeep, total) ==
    (IF NumLess(Secs(ZeroTime), Secs(segmentToKeep.startTime))
     THEN <<Segment(ZeroTime, segmentToKeep.startTime)>>
     ELSE <<>>)
    \o (IF NumLess(Secs(segmentToKeep.endTime), Secs(total))
        THEN <<Segment(segmentToKeep.endTime, total)>>
        ELSE <<>>)

\* ------------------------------------------------------------ inputs
TokenPairs == {Segment(a, b) : a \in TimeTokens, b \in TimeTokens}

\* The intervals to keep: the pairs above and the source up to the late token.
KeepPairs == TokenPairs \cup {Segment(ZeroTime, LateToken)}

SegmentLists == UNION {[1..n -> TokenPairs] : n \in 1..MaxSegs}

\* ------------------------------------------------------------ state
VARIABLES
    planPc,         \* position of the planning run
    planMode,       \* "delete" (deleteEventSegments) or "keep" (removeEventSegments)
    segmentToKeep,  \* removeEventSegments: the interval to keep
    suppliedSegments, \* the remove intervals in the order the caller supplied them
    segments,       \* removeSegments: the remove intervals
    duration,       \* format.duration of the last probe that returned
    keepTotalDuration, \* removeEventSegments: totalDuration of line 301
    totalDuration,  \* removeSegments: totalDuration of line 218
    walkIdx,        \* index of the next remove interval of the walk
    prevEnd,        \* the cursor
    partsToKeep     \* the retain intervals

planVars ==
    <<planPc, planMode, segmentToKeep, suppliedSegments, segments, duration,
      keepTotalDuration, totalDuration, walkIdx, prevEnd, partsToKeep>>

\* ------------------------------------------------------------ tool calls
\* The tool calls in flight.
Ops == 1..NumOps

VARIABLES
    pc,           \* where each call stands: the await it is suspended at, or its end
    kind,         \* the operation the call runs
    opSegments,   \* removeSegments: segments, sorted (line 202)
    opTotal,      \* removeSegments: totalDuration (line 218), <<>> before the plan
    parts,        \* removeSegments: partsToKeep
    partIdx,      \* removeSegments: the loop index i of line 237
    partPaths,    \* removeSegments: partPaths
    tempFiles,    \* tempFiles of the call
    toolArgs,     \* remove_segment and concatenate_videos: args
    calls,        \* the encoder calls the call has issued, in order
    lastOutcome,  \* how the last awaited encoder call of the call ended
    concatInput,  \* what the encoder read when it ran the call's concat command
    error,        \* the error the call threw, "none" otherwise
    releases,     \* how many times the finally block of the call has run
    returned,     \* how many of the call's encoder calls have returned
    output,       \* the file at the call's output path
    fs            \* the scratch files in the working directory: path -> content

opVars ==
    <<pc, kind, opSegments, opTotal, parts, partIdx, partPaths, tempFiles, toolArgs,
      calls, lastOutcome, concatInput, error, releases, returned, output, fs>>

\* ------------------------------------------------------------ pure functions
VARIABLES
    extractPc,      \* position of the extractTimestampsFromResponse call
    responseItems,  \* the words the collaborator put in its response
    responseText,   \* responseText
    matches,        \* line 174
    timestamps,     \* line 175
    extractError,   \* the error of line 186, "none" otherwise
    timeForm,       \* how the argument of the last parseTimeToSeconds call was built
    timeStr,        \* the argument of the last parseTimeToSeconds call
    timeResult      \* what the call returned or threw

textVars == <<extractPc, responseItems, responseText, matches, timestamps, extractError>>

timeVars == <<timeForm, timeStr, timeResult>>

\* ------------------------------------------------------------ analysis state
VARIABLES
    opProbe,        \* what the last duration probe of the call returned
    timer,          \* the 60 s timer of line 115: "unset", "armed" or "fired"
    collab,         \* the generateContent call: "none", "pending" or "settled"
    raceWinner,     \* what settled the Promise.race of line 119
    geminiItems,    \* the words of the collaborator's response
    eventSegments,  \* segmentsToKeep (line 283) or segmentsToRemove (line 353)
    message,        \* the message of the error the analysis ended with
    apiKey          \* line 14: GOOGLE_API_KEY as read when the module was loaded

VARIABLE
    stepsLeft       \* apply_filter_template: the steps of the template not issued yet

eventVars == <<timer, collab, raceWinner, geminiItems, eventSegments, message, apiKey>>

vars == <<planVars, opVars, opProbe, eventVars, textVars, timeVars, stepsLeft>>

PlanInit ==
    /\ planPc = "idle"
    /\ planMode = "none"
    /\ segmentToKeep = Segment(<<>>, <<>>)
    /\ suppliedSegments = <<>>
    /\ segments = <<>>
    /\ duration = JsUndefined
    /\ keepTotalDuration = <<>>
    /\ totalDuration = <<>>
    /\ walkIdx = 0
    /\ prevEnd = <<>>
    /\ partsToKeep = <<>>


\* deleteEventSegments line 358: removeSegments is called on the extracted
\* intervals.
StartDelete(segs) ==
    /\ planPc = "idle"
    /\ planMode' = "delete"
    /\ suppliedSegments' = segs
    /\ segments' = segs
    /\ planPc' = "sort"
    /\ UNCHANGED <<segmentToKeep, duration, keepTotalDuration, totalDuration, walkIdx,
                   prevEnd, partsToKeep>>

\* removeEventSegments lines 283-290: the one interval to keep is taken and
\* the probe is awaited.
StartKeep(keep) ==
    /\ planPc = "idle"
    /\ planMode' = "keep"
    /\ segmentToKeep' = keep
    /\ planPc' = "keepProbe"
    /\ UNCHANGED <<suppliedSegments, segments, duration, keepTotalDuration, totalDuration,
                   walkIdx, prevEnd, partsToKeep>>

\* removeEventSegments lines 290-318: the probe returns; the remove set around
\* the kept interval is built and removeSegments is called on it, or, when it
\* is empty, the copy is issued.
KeepProbe(dur) ==
    /\ planPc = "keepProbe"
    /\ duration' = dur
    /\ keepTotalDuration' = TotalDuration(dur)
    /\ suppliedSegments' = SegmentsToRemove(segmentToKeep, TotalDuration(dur))
    /\ segments' = suppliedSegments'
    /\ planPc' = IF segments' = <<>> THEN "copy" ELSE "sort"
    /\ UNCHANGED <<planMode, segmentToKeep, totalDuration, walkIdx, prevEnd, partsToKeep>>

\* removeSegments line 202, after which the probe of line 205 is awaited.
PlanSort ==
    /\ planPc = "sort"
    /\ segments' = SortSegments(segments)
    /\ planPc' = "probe"
    /\ UNCHANGED <<planMode, segmentToKeep, suppliedSegments, duration, keepTotalDuration,
                   totalDuration, walkIdx, prevEnd, partsToKeep>>

\* removeSegments lines 205-222: the probe of removeSegments returns, in the
\* keep-one mode the second probe of the source.
PlanProbe(dur) ==
    /\ planPc = "probe"
    /\ duration' = dur
    /\ totalDuration' = TotalDuration(dur)
    /\ prevEnd' = ZeroTime
    /\ partsToKeep' = <<>>
    /\ walkIdx' = 1
    /\ planPc' = "walk"
    /\ UNCHANGED <<planMode, segmentToKeep, suppliedSegments, segments, keepTotalDuration>>

\* removeSegments lines 224-229, one remove interval.
PlanWalk ==
    /\ planPc = "walk"
    /\ walkIdx <= Len(segments)
    /\ LET st == WalkStep(prevEnd, partsToKeep, segments[walkIdx])
       IN  /\ prevEnd' = st.prevEnd
           /\ partsToKeep' = st.partsToKeep
    /\ walkIdx' = walkIdx + 1
    /\ UNCHANGED <<planPc, planMode, segmentToKeep, suppliedSegments, segments,
                   duration, keepTotalDuration, totalDuration>>

\* removeSegments lines 231-256: the tail, then extraction or the empty error.
PlanTail ==
    /\ planPc = "walk"
    /\ walkIdx > Len(segments)
    /\ partsToKeep' = WalkTail(prevEnd, partsToKeep, totalDuration)
    /\ planPc' = IF partsToKeep' = <<>> THEN "empty" ELSE "planned"
    /\ UNCHANGED <<planMode, segmentToKeep, suppliedSegments, segments, duration,
                   keepTotalDuration, totalDuration, walkIdx, prevEnd>>


\* ------------------------------------------------------------ scratch files
PartNames ==
    <<"temp_part_0.mp4", "temp_part_1.mp4", "temp_part_2.mp4", "temp_part_3.mp4",
      "temp_part_4.mp4", "temp_part_5.mp4">>

\* removeSegments line 238.
PartPath(i) == PartNames[i + 1]

\* Lines 247, 725 and 1112.
ConcatListPath == "temp_concat_list.txt"

\* remove_segment lines 1098 and 1103.
ToolPart1Path == "temp_part1.mp4"

ToolPart2Path == "temp_part2.mp4"

ScratchPaths ==
    {PartNames[i] : i \in DOMAIN PartNames} \cup {ConcatListPath, ToolPart1Path, ToolPart2Path}

RECURSIVE Reverse(_)
Reverse(q) == IF q = <<>> THEN <<>> ELSE Append(Reverse(Tail(q)), Head(q))

NoPart == [start |-> <<>>, end |-> <<>>]

\* What an encoder call that succeeded left at its output path.
ExtractFile(o, part) == [writer |-> o, kind |-> "extract", part |-> part, lines |-> <<>>]

\* What an encoder call that failed after opening its output left there.
PartialFile(o) == [writer |-> o, kind |-> "partial", part |-> NoPart, lines |-> <<>>]

\* Mutation: the list is written last path first.
ManifestFile_Reversed(o, paths) ==
    [writer |-> o, kind |-> "manifest", part |-> NoPart, lines |-> Reverse(paths)]

\* Lines 249-250: one line per path, in the order of the array.
ManifestFile(o, paths) == [writer |-> o, kind |-> "manifest", part |-> NoPart, lines |-> paths]

MissingFile == [writer |-> 0, kind |-> "missing", part |-> NoPart, lines |-> <<>>]

\* A file of the caller (an input video), outside the scratch names.
InputFile == [writer |-> 0, kind |-> "input", part |-> NoPart, lines |-> <<>>]

Range(f) == {f[i] : i \in DOMAIN f}

Write(fsv, p, c) == [q \in (DOMAIN fsv) \cup {p} |-> IF q = p THEN c ELSE fsv[q]]

Unlink(fsv, p) == [q \in (DOMAIN fsv) \ {p} |-> fsv[q]]

\* A path the caller names although no file is there.
AbsentPath == "nope.mp4"

FileAt(fsv, p) ==
    IF p \in DOMAIN fsv THEN fsv[p]
    ELSE IF p \in ScratchPaths \cup {AbsentPath} THEN MissingFile
    ELSE InputFile

\* utils validatePath: the error it throws, "none" when it returns the path.
validatePath(fsv, path, isInput) ==
    IF path = "" THEN "PathRequired"
    ELSE IF isInput /\ FileAt(fsv, path).kind = "missing" THEN "InputMissing"
    ELSE "none"

\* concatenate_videos line 716: validatePath over inputPaths, which throws at
\* the first path it rejects.
RECURSIVE ValidateInputs(_, _)
ValidateInputs(fsv, paths) ==
    IF paths = <<>> THEN "none"
    ELSE IF validatePath(fsv, Head(paths), TRUE) # "none"
         THEN validatePath(fsv, Head(paths), TRUE)
         ELSE ValidateInputs(fsv, Tail(paths))

\* utils ensureDirectoryExists: mkdir creates the directory of the output or
\* finds it there, or fails with another error, which is rethrown.
DirectoryOutcomes == {"ok", "failed"}

\* Mutation: the finally block deletes nothing.
ReleaseAll_Nothing(fsv, files) == fsv

\* Mutation: unlinkSync without the existsSync test throws at the first
\* missing file and leaves the rest of the list in place.
RECURSIVE ReleaseAll_NoExistsTest(_, _)
ReleaseAll_NoExistsTest(fsv, files) ==
    IF files = <<>> THEN fsv
    ELSE IF Head(files) \in DOMAIN fsv
         THEN ReleaseAll_NoExistsTest(Unlink(fsv, Head(files)), Tail(files))
         ELSE fsv

\* Mutation: the concat list is not among the files the cleanup deletes.
RECURSIVE ReleaseAll_PartsOnly(_, _)
ReleaseAll_PartsOnly(fsv, files) ==
    IF files = <<>> THEN fsv
    ELSE IF Head(files) \in DOMAIN fsv /\ Head(files) # ConcatListPath
         THEN ReleaseAll_PartsOnly(Unlink(fsv, Head(files)), Tail(files))
         ELSE ReleaseAll_PartsOnly(fsv, Tail(files))

\* The finally block of lines 257-263 (and 1126-1132, 739-743).
RECURSIVE ReleaseAll(_, _)
ReleaseAll(fsv, files) ==
    IF files = <<>> THEN fsv
    ELSE IF Head(files) \in DOMAIN fsv
         THEN ReleaseAll(Unlink(fsv, Head(files)), Tail(files))
         ELSE ReleaseAll(fsv, Tail(files))

\* Mutation: the concat branch is taken whatever was extracted.
ShouldConcat_Always(paths) == TRUE

\* Line 246.
ShouldConcat(paths) == Len(paths) > 0

\* ------------------------------------------------------------ collaborators
\* The external encoder (runFFmpegCommand): a call succeeds and its output
\* file is in place, or it fails, having written nothing or a partial file.
EncoderOutcomes == {"ok", "failed", "failedPartial"}

\* The file an encoder call leaves at path p.
AfterEncode(fsv, p, outcome, o, part) ==
    IF outcome = "ok" THEN Write(fsv, p, ExtractFile(o, part))
    ELSE IF outcome = "failedPartial" THEN Write(fsv, p, PartialFile(o))
    ELSE fsv

\* What the encoder's concat demuxer finds: the list file and the files its
\* lines name, as they are on disk when the command runs.
ReadConcat(fsv) ==
    LET list == FileAt(fsv, ConcatListPath)
    IN  [read |-> TRUE, list |-> list,
         files |-> [i \in DOMAIN list.lines |-> FileAt(fsv, list.lines[i])]]

NotRead == [read |-> FALSE, list |-> MissingFile, files |-> <<>>]

\* The concat command cannot succeed without its list and every listed file.
Readable(fsv) ==
    LET r == ReadConcat(fsv)
    IN  r.list.kind = "manifest" /\ \A i \in DOMAIN r.files : r.files[i].kind # "missing"

\* The duration probe (getVideoInfo and JSON.parse of its output).
ProbeResult(ok, json, dur) == [ok |-> ok, json |-> json, duration |-> dur]

ProbeResults ==
    {ProbeResult(FALSE, FALSE, JsUndefined),
     ProbeResult(TRUE, FALSE, JsUndefined),
     ProbeResult(TRUE, TRUE, JsUndefined),
     ProbeResult(TRUE, TRUE, JsStr(<<"N", "/", "A">>)),
     ProbeResult(TRUE, TRUE, WholeSeconds(MaxSec))}

\* Line 215: !duration.
Falsy(v) ==
    \/ v.t = "undefined" \/ v.t = "null"
    \/ (v.t = "string" /\ v.s = <<>>)
    \/ (v.t = "number" /\ (v.n.nan \/ v.n = Zero))

\* The remove sets of the calls: one interval inside the source, which leaves
\* two parts, and one that covers the source, which leaves none.
CallSegmentLists ==
    {<<Segment(Token(0, 0, 1), Token(0, 0, 1) \o <<".", "5">>)>>,
     <<Segment(Token(0, 0, 0), Token(0, 0, MaxSec))>>}

RemoveSegmentArgs(inputPath, startTime, endTime, outputPath) ==
    [inputPath |-> inputPath, startTime |-> startTime, endTime |-> endTime,
     outputPath |-> outputPath]

\* remove_segment arguments: a cut from the start of the source, a reversed
\* interval, and the cut on an input that is not there.
ToolArgs ==
    {RemoveSegmentArgs("in1.mp4", Token(0, 0, 0), Token(0, 0, 1), "out1.mp4"),
     RemoveSegmentArgs("in1.mp4", Token(0, 0, 2), Token(0, 0, 1), "out1.mp4"),
     RemoveSegmentArgs(AbsentPath, Token(0, 0, 0), Token(0, 0, 1), "out1.mp4")}

\* concatenate_videos arguments: inputPaths as the caller gave it, or not
\* given, and outputPath.
ConcatArgs(given, inputPaths, outputPath) ==
    [given |-> given, inputPaths |-> inputPaths, outputPath |-> outputPath]

\* Two inputs, no input, inputPaths left out, a second input that is not
\* there, and two inputs with an empty output path.
ConcatArgLists ==
    {ConcatArgs(TRUE, <<"input_a.mp4", "input_b.mp4">>, "out1.mp4"),
     ConcatArgs(TRUE, <<>>, "out1.mp4"),
     ConcatArgs(FALSE, <<>>, "out1.mp4"),
     ConcatArgs(TRUE, <<"input_a.mp4", AbsentPath>>, "out1.mp4"),
     ConcatArgs(TRUE, <<"input_a.mp4", "input_b.mp4">>, "")}

Call(op, start, end, out) == [op |-> op, start |-> start, end |-> end, out |-> out]

\* Mutation: the extraction command without its -ss bound.
ExtractCall_FromZero(i, part) == Call("extract", ZeroTime, part.end, PartPath(i))

\* Line 240: the extraction command of part i, bounded by -ss and -to.
ExtractCall(i, part) == Call("extract", part.start, part.end, PartPath(i))

\* Mutation: the loop of line 237 stops after its first iteration.
MoreParts_StopAfterFirst(i, keep) == FALSE

\* Line 237: the loop goes on while the next index is below partsToKeep.length.
MoreParts(i, keep) == i + 1 < Len(keep)

\* Mutation: a rejected encoder call is not thrown.
ExtractFailed_Ignored(outcome) == FALSE

\* Line 241: the awaited encoder call rejects, which throws out of the loop.
ExtractFailed(outcome) == outcome # "ok"

Ended == {"done", "failed"}

Running(o) == pc[o] \notin {"idle", "done", "failed"}

\* Line 14: process.env.GOOGLE_API_KEY || "": not set, blank, or a key.
ApiKeys == {<<>>, <<" ">>, <<"k", "e", "y">>}

\* Line 65: !apiKey || apiKey.trim() === "".
KeyMissing(key) == key = <<>> \/ Trim(key) = <<>>

\* The calls are numbered in the order they arrive.
Arrives(o) == pc[o] = "idle" /\ \A o2 \in Ops : o2 < o => pc[o2] # "idle"

OpInit ==
    /\ pc = [o \in Ops |-> "idle"]
    /\ kind = [o \in Ops |-> "none"]
    /\ opSegments = [o \in Ops |-> <<>>]
    /\ opTotal = [o \in Ops |-> <<>>]
    /\ parts = [o \in Ops |-> <<>>]
    /\ partIdx = [o \in Ops |-> 0]
    /\ partPaths = [o \in Ops |-> <<>>]
    /\ tempFiles = [o \in Ops |-> <<>>]
    /\ toolArgs = [o \in Ops |-> Segment(<<>>, <<>>)]
    /\ calls = [o \in Ops |-> <<>>]
    /\ lastOutcome = [o \in Ops |-> "none"]
    /\ concatInput = [o \in Ops |-> NotRead]
    /\ error = [o \in Ops |-> "none"]
    /\ releases = [o \in Ops |-> 0]
    /\ returned = [o \in Ops |-> 0]
    /\ output = [o \in Ops |-> "absent"]
    /\ fs = <<>>
    /\ stepsLeft = [o \in Ops |-> <<>>]

EventInit ==
    /\ opProbe = [o \in Ops |-> ProbeResult(FALSE, FALSE, JsNull)]
    /\ timer = [o \in Ops |-> "unset"]
    /\ collab = [o \in Ops |-> "none"]
    /\ raceWinner = [o \in Ops |-> "none"]
    /\ geminiItems = [o \in Ops |-> <<>>]
    /\ eventSegments = [o \in Ops |-> <<>>]
    /\ message = [o \in Ops |-> <<>>]
    /\ apiKey \in ApiKeys

\* ------------------------------------------------------------ response texts
\* A timestamp token followed by the punctuation or space after it.
TokenItem(tok, trail) == [text |-> tok \o trail, tokens |-> <<tok>>]

\* A word that holds no HH:MM:SS token.
OtherItem(text) == [text |-> text, tokens |-> <<>>]

ResponseItems ==
    {TokenItem(Token(0, 0, 1), <<" ">>),
     TokenItem(Token(0, 0, 2) \o <<".", "5">>, <<"-">>),
     TokenItem(Token(0, 1, 0), <<".", " ">>),
     OtherItem(<<"a", "t", " ">>),
     OtherItem(<<"1", ":", "0", "2", " ">>)}

Responses == UNION {[1..n -> ResponseItems] : n \in 0..MaxItems}

RECURSIVE TextOf(_)
TextOf(items) == IF items = <<>> THEN <<>> ELSE Head(items).text \o TextOf(Tail(items))

RECURSIVE TokensOf(_)
TokensOf(items) == IF items = <<>> THEN <<>> ELSE Head(items).tokens \o TokensOf(Tail(items))

TextInit ==
    /\ extractPc = "idle"
    /\ responseItems = <<>>
    /\ responseText = <<>>
    /\ matches = <<>>
    /\ timestamps = <<>>
    /\ extractError = "none"

\* extractTimestampsFromResponse is called with a response text.
Respond(items) ==
    /\ extractPc = "idle"
    /\ responseItems' = items
    /\ responseText' = TextOf(items)
    /\ extractPc' = "matching"
    /\ UNCHANGED <<matches, timestamps, extractError>>

\* Lines 173-174.
MatchTimestamps ==
    /\ extractPc = "matching"
    /\ matches' = MatchAll(responseText, 1)
    /\ extractPc' = "pairing"
    /\ UNCHANGED <<responseItems, responseText, timestamps, extractError>>

\* Lines 175-189.
PairTimestamps ==
    /\ extractPc = "pairing"
    /\ timestamps' = PairsOf(matches)
    /\ extractError' = IF timestamps' = <<>> THEN "NoTimestampsFound" ELSE "none"
    /\ extractPc' = IF timestamps' = <<>> THEN "threw" ELSE "returned"
    /\ UNCHANGED <<responseItems, responseText, matches>>

\* ------------------------------------------------------------ time arguments
FieldChars(n, pad) == IF pad THEN Two(n) ELSE IntChars(n)

\* Thousandths of a second.  With 29 the sums are rounded: 60 + 1.029 is the
\* double below the one the literal 61.029 denotes.
Fractions == {0, 500, 250, 5, 29}

Form(shape, h, m, sec, ms, input) ==
    [shape |-> shape, h |-> h, m |-> m, sec |-> sec, ms |-> ms, input |-> input]

\* The number a decimal literal of n thousandths denotes.
Thousandths(n) == DecimalToDouble(FALSE, IntChars(n), -3)

\* The seconds a well-formed argument stands for: the number
\* hours * 3600 + minutes * 60 + seconds of its fields, as the language
\* computes that expression.
FormValue(f) ==
    NumAdd(NumAdd(NumTimes(Num(f.h), 3600), NumTimes(Num(f.m), 60)),
           Thousandths(f.sec * 1000 + f.ms))

\* HH:MM:SS(.mmm) and H:M:S(.mmm).
ThreePartForms ==
    {Form("hms", h, m, sec, ms,
          JsStr(FieldChars(h, pad) \o <<":">> \o FieldChars(m, pad) \o <<":">>
                \o FieldChars(sec, pad) \o FracChars(ms))) :
        h \in 0..MaxField, m \in 0..MaxField, sec \in 0..MaxField, ms \in Fractions,
        pad \in BOOLEAN}

\* MM:SS(.mmm) and M:S(.mmm).
TwoPartForms ==
    {Form("ms", 0, m, sec, ms,
          JsStr(FieldChars(m, pad) \o <<":">> \o FieldChars(sec, pad) \o FracChars(ms))) :
        m \in 0..MaxField, sec \in 0..MaxField, ms \in Fractions, pad \in BOOLEAN}

\* Seconds as a string, with white space around it or without.
SecondsForms ==
    {Form("s", 0, 0, sec, ms,
          JsStr((IF sp THEN <<"\t", " ">> ELSE <<>>) \o IntChars(sec) \o FracChars(ms)
                \o (IF sp THEN <<" ", "\n">> ELSE <<>>))) :
        sec \in (0..MaxField) \cup {45}, ms \in Fractions, sp \in BOOLEAN}

\* Seconds as a number.
NumberForms ==
    {Form("number", 0, 0, sec, ms, JsNum(Thousandths(sec * 1000 + ms))) :
        sec \in (0..MaxField) \cup {45}, ms \in Fractions}

WellFormedShapes == {"hms", "ms", "s", "number"}

AbsentForms == {Form("absent", 0, 0, 0, 0, JsUndefined), Form("absent", 0, 0, 0, 0, JsNull)}

Malformed(text) == Form("malformed", 0, 0, 0, 0, JsStr(text))

\* Strings that are empty, have the wrong number of parts, or have a part
\* that is not a number.
MalformedForms ==
    {Malformed(<<>>), Malformed(<<" ", " ">>),
     Malformed(<<"a", "b", ":", "c", "d">>),
     Malformed(<<"1", ":", "2", ":", "3", ":", "4">>),
     Malformed(<<"1", ":">>), Malformed(<<":", "3", "0">>),
     Malformed(<<"1", ":", ":", "2">>),
     Malformed(<<"a", "b", "c">>),
     Malformed(<<"1", "x", ":", "3", "0">>),
     Malformed(<<"1", ":", "3", "x">>),
     Malformed(<<"1", "2", "a", "b", "c">>)}

\* Negative amounts of time.
NegativeForms ==
    {Form("negative", 0, 0, 5, 0, JsStr(<<"-", "5">>)),
     Form("negative", 0, 1, 30, 0, JsStr(<<"-", "1", ":", "3", "0">>)),
     Form("negative", 0, 0, 5, 0, JsNum(Num(-5)))}

TimeForms ==
    ThreePartForms \cup TwoPartForms \cup SecondsForms \cup NumberForms
    \cup AbsentForms \cup MalformedForms \cup NegativeForms

NotCalled == [ok |-> FALSE, v |-> Zero, err |-> "NotCalled"]

TimeInit ==
    /\ timeForm = Form("none", 0, 0, 0, 0, JsUndefined)
    /\ timeStr = JsUndefined
    /\ timeResult = NotCalled

\* parseTimeToSeconds is called.
CallParse(f) ==
    /\ timeForm.shape = "none"
    /\ timeForm' = f
    /\ timeStr' = f.input
    /\ timeResult' = parseTimeToSeconds(f.input)

Init == PlanInit /\ OpInit /\ EventInit /\ TextInit /\ TimeInit

\* The state after construction with GOOGLE_API_KEY set. Only
\* analyzeVideoWithGemini reads the key, so the specifications without it
\* start here.
KeyedInit == Init /\ ~KeyMissing(apiKey)

\* ------------------------------------------------------------ steps of a call
\* Each fragment below sets pc, tempFiles, calls, error, releases and fs.

\* The exit of a try block: the finally block, then the return or the throw.
Finish(o, fsv, files, err) ==
    /\ tempFiles' = [tempFiles EXCEPT ![o] = files]
    /\ fs' = ReleaseAll(fsv, files)
    /\ releases' = [releases EXCEPT ![o] = @ + 1]
    /\ error' = [error EXCEPT ![o] = err]
    /\ pc' = [pc EXCEPT ![o] = IF err = "none" THEN "done" ELSE "failed"]
    /\ UNCHANGED calls

\* A throw before any try block is entered.
Reject(o, err) ==
    /\ error' = [error EXCEPT ![o] = err]
    /\ pc' = [pc EXCEPT ![o] = "failed"]
    /\ UNCHANGED <<tempFiles, fs, releases, calls>>

\* Lines 238-241: the extraction of part i is issued.
StartExtract(o, fsv, files, i, part) ==
    /\ tempFiles' = [tempFiles EXCEPT ![o] = Append(files, PartPath(i))]
    /\ fs' = fsv
    /\ calls' = [calls EXCEPT ![o] = Append(@, ExtractCall(i, part))]
    /\ pc' = [pc EXCEPT ![o] = "extracting"]
    /\ UNCHANGED <<error, releases>>

\* Lines 247-253 (1112-1118, 725-731): the list is written and the concat is issued.
StartConcat(o, fsv, files, paths) ==
    /\ tempFiles' = [tempFiles EXCEPT ![o] = Append(files, ConcatListPath)]
    /\ fs' = Write(fsv, ConcatListPath, ManifestFile(o, paths))
    /\ calls' = [calls EXCEPT ![o] = Append(@, Call("concat", <<>>, <<>>, "output"))]
    /\ pc' = [pc EXCEPT ![o] = "concatenating"]
    /\ UNCHANGED <<error, releases>>

\* Lines 245-256: after the extraction loop.
ConcatOrThrow(o, fsv, files, paths) ==
    IF ShouldConcat(paths)
    THEN StartConcat(o, fsv, files, paths)
    ELSE Finish(o, fsv, files, "EmptyRetainSet")

\* removeSegments lines 198-205: the sort, then the probe is awaited.
StartRemoveSegments(o, segs) ==
    /\ UNCHANGED opProbe
    /\ Arrives(o)
    /\ kind' = [kind EXCEPT ![o] = "removeSegments"]
    /\ opSegments' = [opSegments EXCEPT ![o] = SortSegments(segs)]
    /\ pc' = [pc EXCEPT ![o] = "probing"]
    /\ UNCHANGED <<opTotal, parts, partIdx, partPaths, tempFiles, toolArgs, calls,
                   lastOutcome, concatInput, error, releases, returned, output, fs>>

\* removeSegments lines 205-241 and 245-263: the probe returns; the duration
\* is read, the parts are planned and the first extraction is issued.
ProbeReturn(o, probe) ==
    /\ pc[o] = "probing"
    /\ opProbe' = [opProbe EXCEPT ![o] = probe]
    /\ UNCHANGED <<kind, opSegments, partIdx, partPaths, toolArgs, lastOutcome,
                   concatInput, returned, output>>
    /\ IF ~probe.ok
       THEN Finish(o, fs, tempFiles[o], "ProbeFailed") /\ UNCHANGED <<opTotal, parts>>
       ELSE IF ~probe.json \/ Falsy(probe.duration)
       THEN Finish(o, fs, tempFiles[o], "PreconditionFailed") /\ UNCHANGED <<opTotal, parts>>
       ELSE IF ~parseTimeToSeconds(probe.duration).ok
       THEN Finish(o, fs, tempFiles[o], parseTimeToSeconds(probe.duration).err)
            /\ UNCHANGED <<opTotal, parts>>
       ELSE LET total == TotalDuration(probe.duration)
                keep == PartsToKeep(opSegments[o], total)
            IN  /\ opTotal' = [opTotal EXCEPT ![o] = total]
                /\ parts' = [parts EXCEPT ![o] = keep]
                /\ IF Len(keep) > 0
                   THEN StartExtract(o, fs, tempFiles[o], 0, keep[1])
                   ELSE ConcatOrThrow(o, fs, tempFiles[o], partPaths[o])

\* removeSegments lines 241-256: an extraction returns.
ExtractReturn(o, outcome) ==
    /\ UNCHANGED opProbe
    /\ pc[o] = "extracting"
    /\ lastOutcome' = [lastOutcome EXCEPT ![o] = outcome]
    /\ returned' = [returned EXCEPT ![o] = @ + 1]
    /\ UNCHANGED <<kind, opSegments, opTotal, parts, toolArgs, concatInput, output>>
    /\ LET i == partIdx[o]
           fsv == AfterEncode(fs, PartPath(i), outcome, o, parts[o][i + 1])
           paths == Append(partPaths[o], PartPath(i))
       IN  IF ExtractFailed(outcome)
           THEN Finish(o, fsv, tempFiles[o], "ExtractionFailed")
                /\ UNCHANGED <<partIdx, partPaths>>
           ELSE /\ partPaths' = [partPaths EXCEPT ![o] = paths]
                /\ IF MoreParts(i, parts[o])
                   THEN /\ partIdx' = [partIdx EXCEPT ![o] = i + 1]
                        /\ StartExtract(o, fsv, tempFiles[o], i + 1, parts[o][i + 2])
                   ELSE /\ UNCHANGED partIdx
                        /\ ConcatOrThrow(o, fsv, tempFiles[o], paths)

\* The concat command returns (lines 253-263, 731-743, 1118-1132).
ConcatReturn(o, outcome) ==
    /\ UNCHANGED opProbe
    /\ pc[o] = "concatenating"
    /\ outcome = "ok" => Readable(fs)
    /\ lastOutcome' = [lastOutcome EXCEPT ![o] = outcome]
    /\ returned' = [returned EXCEPT ![o] = @ + 1]
    /\ concatInput' = [concatInput EXCEPT ![o] = ReadConcat(fs)]
    /\ output' = [output EXCEPT ![o] =
                    IF outcome = "ok" THEN "written"
                    ELSE IF outcome = "failedPartial" THEN "partial" ELSE @]
    /\ Finish(o, fs, tempFiles[o], IF outcome = "ok" THEN "none" ELSE "ConcatenationFailed")
    /\ UNCHANGED <<kind, opSegments, opTotal, parts, partIdx, partPaths, toolArgs>>

\* remove_segment lines 1081-1094: the paths and the times are checked and
\* ensureDirectoryExists is awaited.
StartRemoveSegmentTool(o, args) ==
    /\ UNCHANGED opProbe
    /\ Arrives(o)
    /\ kind' = [kind EXCEPT ![o] = "remove_segment"]
    /\ toolArgs' = [toolArgs EXCEPT ![o] = args]
    /\ UNCHANGED <<opSegments, opTotal, parts, partIdx, partPaths, lastOutcome,
                   concatInput, returned, output>>
    /\ LET inputError == validatePath(fs, args.inputPath, TRUE)
           outputError == validatePath(fs, args.outputPath, FALSE)
           startSec == parseTimeToSeconds(JsStr(args.startTime))
           endSec == parseTimeToSeconds(JsStr(args.endTime))
       IN  IF inputError # "none" THEN Reject(o, inputError)
           ELSE IF outputError # "none" THEN Reject(o, outputError)
           ELSE IF ~startSec.ok THEN Reject(o, startSec.err)
           ELSE IF ~endSec.ok THEN Reject(o, endSec.err)
           ELSE IF NumLess(startSec.v, Zero) \/ NumLeq(endSec.v, startSec.v) THEN Reject(o, "InvalidRange")
           ELSE /\ pc' = [pc EXCEPT ![o] = "ensuring"]
                /\ UNCHANGED <<tempFiles, calls, fs, error, releases>>

\* remove_segment lines 1094-1101: ensureDirectoryExists returns and the part
\* before the cut is issued, or it throws, outside the try block.
RemoveSegmentToolReady(o, outcome) ==
    /\ UNCHANGED opProbe
    /\ pc[o] = "ensuring"
    /\ kind[o] = "remove_segment"
    /\ UNCHANGED <<kind, opSegments, opTotal, parts, partIdx, partPaths, toolArgs,
                   lastOutcome, concatInput, returned, output>>
    /\ IF outcome # "ok" THEN Reject(o, "DirectoryFailed")
       ELSE /\ tempFiles' = [tempFiles EXCEPT ![o] = <<ToolPart1Path>>]
            /\ calls' = [calls EXCEPT ![o] =
                            Append(@, Call("part1", <<"0">>, toolArgs[o].startTime, ToolPart1Path))]
            /\ pc' = [pc EXCEPT ![o] = "part1"]
            /\ UNCHANGED <<fs, error, releases>>

\* remove_segment lines 1101-1106: the first part returns, the second is issued.
Part1Return(o, outcome) ==
    /\ UNCHANGED opProbe
    /\ pc[o] = "part1"
    /\ lastOutcome' = [lastOutcome EXCEPT ![o] = outcome]
    /\ returned' = [returned EXCEPT ![o] = @ + 1]
    /\ UNCHANGED <<kind, opSegments, opTotal, parts, partIdx, partPaths, toolArgs,
                   concatInput, output>>
    /\ LET fsv == AfterEncode(fs, ToolPart1Path, outcome, o,
                              [start |-> <<"0">>, end |-> toolArgs[o].startTime])
       IN  IF outcome # "ok"
           THEN Finish(o, fsv, tempFiles[o], "ExtractionFailed")
           ELSE /\ tempFiles' = [tempFiles EXCEPT ![o] = Append(@, ToolPart2Path)]
                /\ fs' = fsv
                /\ calls' = [calls EXCEPT ![o] =
                                Append(@, Call("part2", toolArgs[o].endTime, <<>>, ToolPart2Path))]
                /\ pc' = [pc EXCEPT ![o] = "part2"]
                /\ UNCHANGED <<error, releases>>

\* remove_segment lines 1106-1118: the second part returns, both parts are
\* looked for, the list is written and the concat is issued.
Part2Return(o, outcome) ==
    /\ UNCHANGED opProbe
    /\ pc[o] = "part2"
    /\ lastOutcome' = [lastOutcome EXCEPT ![o] = outcome]
    /\ returned' = [returned EXCEPT ![o] = @ + 1]
    /\ UNCHANGED <<kind, opSegments, opTotal, parts, partIdx, partPaths, toolArgs,
                   concatInput, output>>
    /\ LET fsv == AfterEncode(fs, ToolPart2Path, outcome, o,
                              [start |-> toolArgs[o].endTime, end |-> <<>>])
       IN  IF outcome # "ok"
           THEN Finish(o, fsv, tempFiles[o], "ExtractionFailed")
           ELSE IF ToolPart1Path \notin DOMAIN fsv \/ ToolPart2Path \notin DOMAIN fsv
           THEN Finish(o, fsv, tempFiles[o], "SegmentsMissing")
           ELSE StartConcat(o, fsv, tempFiles[o], <<ToolPart1Path, ToolPart2Path>>)

\* concatenate_videos lines 715-723: the paths are checked, an empty or
\* missing inputPaths is refused and ensureDirectoryExists is awaited.
StartConcatenateVideos(o, args) ==
    /\ UNCHANGED opProbe
    /\ Arrives(o)
    /\ kind' = [kind EXCEPT ![o] = "concatenate_videos"]
    /\ toolArgs' = [toolArgs EXCEPT ![o] = args]
    /\ UNCHANGED <<opSegments, opTotal, parts, partIdx, partPaths, lastOutcome,
                   concatInput, returned, output>>
    /\ LET inputError == ValidateInputs(fs, args.inputPaths)
           outputError == validatePath(fs, args.outputPath, FALSE)
       IN  IF inputError # "none" THEN Reject(o, inputError)
           ELSE IF outputError # "none" THEN Reject(o, outputError)
           ELSE IF ~args.given \/ Len(args.inputPaths) = 0 THEN Reject(o, "NoInputs")
           ELSE /\ pc' = [pc EXCEPT ![o] = "ensuring"]
                /\ UNCHANGED <<tempFiles, calls, fs, error, releases>>

\* concatenate_videos lines 723-731: ensureDirectoryExists returns, the list
\* of the input videos is written and the concat is issued, or it throws,
\* outside the try block.
ConcatenateVideosReady(o, outcome) ==
    /\ UNCHANGED opProbe
    /\ pc[o] = "ensuring"
    /\ kind[o] = "concatenate_videos"
    /\ UNCHANGED <<kind, opSegments, opTotal, parts, partIdx, partPaths, toolArgs,
                   lastOutcome, concatInput, returned, output>>
    /\ IF outcome # "ok" THEN Reject(o, "DirectoryFailed")
       ELSE StartConcat(o, fs, tempFiles[o], toolArgs[o].inputPaths)

Next ==
    /\ \E o \in Ops :
          \/ \E segs \in CallSegmentLists : StartRemoveSegments(o, segs)
          \/ \E probe \in ProbeResults : ProbeReturn(o, probe)
          \/ \E outcome \in EncoderOutcomes : ExtractReturn(o, outcome)
          \/ \E outcome \in EncoderOutcomes : ConcatReturn(o, outcome)
          \/ \E args \in ToolArgs : StartRemoveSegmentTool(o, args)
          \/ \E outcome \in DirectoryOutcomes : RemoveSegmentToolReady(o, outcome)
          \/ \E outcome \in EncoderOutcomes : Part1Return(o, outcome)
          \/ \E outcome \in EncoderOutcomes : Part2Return(o, outcome)
          \/ \E args \in ConcatArgLists : StartConcatenateVideos(o, args)
          \/ \E outcome \in DirectoryOutcomes : ConcatenateVideosReady(o, outcome)
    /\ UNCHANGED <<planVars, eventVars, textVars, timeVars, stepsLeft>>

\* The tool calls in flight, interleaved at their awaits.
Spec == KeyedInit /\ [][Next]_vars

\* Every probe, extraction and concat call of a tool call returns in the end.
CallsReturn ==
    \A o \in Ops :
        /\ WF_vars(/\ \E probe \in ProbeResults : ProbeReturn(o, probe)
                   /\ UNCHANGED <<planVars, eventVars, textVars, timeVars, stepsLeft>>)
        /\ WF_vars(/\ \E outcome \in EncoderOutcomes : ExtractReturn(o, outcome)
                   /\ UNCHANGED <<planVars, eventVars, textVars, timeVars, stepsLeft>>)
        /\ WF_vars(/\ \E outcome \in EncoderOutcomes : ConcatReturn(o, outcome)
                   /\ UNCHANGED <<planVars, eventVars, textVars, timeVars, stepsLeft>>)

RemoveSegmentsNext ==
    /\ \E o \in Ops :
          \/ \E segs \in CallSegmentLists : StartRemoveSegments(o, segs)
          \/ \E probe \in ProbeResults : ProbeReturn(o, probe)
          \/ \E outcome \in EncoderOutcomes : ExtractReturn(o, outcome)
          \/ \E outcome \in EncoderOutcomes : ConcatReturn(o, outcome)
    /\ UNCHANGED <<planVars, eventVars, textVars, timeVars, stepsLeft>>

\* Interleaved removeSegments calls when no probe or encoder call hangs.
LiveSpec == KeyedInit /\ [][RemoveSegmentsNext]_vars /\ CallsReturn

\* ------------------------------------------------------------ event-driven calls
\* Lines 135-138: what analyzeVideoWithGemini puts before the response text.
AnalysisPrefix ==
    <<"V", "i", "d", "e", "o", " ", "A", "n", "a", "l", "y", "s", "i", "s", " ", "R",
      "e", "s", "u", "l", "t", "s", ":", "\n", "\n">>

\* The collaborator's responses: no token, one token, one pair inside the
\* source, one pair that spans the source, one pair with its end before its
\* start, three tokens, two pairs, and the pair from 0 to the late token.
EventResponses ==
    {<<OtherItem(<<"a", "t", " ">>)>>,
     <<TokenItem(ZeroTime, <<" ">>), TokenItem(LateToken, <<" ">>)>>,
     <<TokenItem(Token(0, 0, 1), <<" ">>)>>,
     <<TokenItem(Token(0, 0, 1), <<" ">>), TokenItem(Token(0, 0, 1) \o <<".", "5">>, <<"-">>)>>,
     <<TokenItem(Token(0, 0, 0), <<" ">>), TokenItem(Token(0, 0, MaxSec), <<" ">>)>>,
     <<TokenItem(Token(0, 0, 2), <<" ">>), TokenItem(Token(0, 0, 1), <<" ">>)>>,
     <<TokenItem(Token(0, 0, 0), <<" ">>), TokenItem(Token(0, 0, 1), <<" ">>),
       TokenItem(Token(0, 0, 2), <<" ">>)>>,
     <<TokenItem(Token(0, 0, 0), <<" ">>), TokenItem(Token(0, 0, 1), <<" ">>),
       OtherItem(<<"a", "t", " ">>),
       TokenItem(Token(0, 0, 1) \o <<".", "5">>, <<"-">>), TokenItem(Token(0, 0, 2), <<" ">>)>>}

\* The paths of a call: an input that is there and an output, an input that
\* is not there, and an empty output path.
PathArgLists ==
    {[inputPath |-> "in1.mp4", outputPath |-> "out1.mp4"],
     [inputPath |-> AbsentPath, outputPath |-> "out1.mp4"],
     [inputPath |-> "in1.mp4", outputPath |-> ""]}

\* An error message, as the phrases it is made of.
Includes(msg, phrase) == \E i \in DOMAIN msg : msg[i] = phrase

\* Line 66.
KeyMissingMessage ==
    <<"Gemini API key is not configured. Please add a valid GOOGLE_API_KEY to your .env file.">>

\* Line 115: the rejection of the timer's promise.
RaceTimeoutMessage == <<"Request ", "timed out", " after 60 seconds">>

\* The errors of lines 76-87: getVideoInfo rejects, JSON.parse throws on its
\* output, or readFileSync or toString throws on the video file. The texts
\* come from outside this code; some hold a phrase the catch of line 145
\* looks for.
ReadFailures ==
    {<<"Command failed: ffprobe">>,
     <<"Unexpected token in JSON">>,
     <<"ffprobe: ", "invalid argument">>,
     <<"read ", "timeout">>,
     <<"The file ", "exceeds maximum allowed size">>}

\* The failures of generateContent and of reading its response: a rejected
\* request, an invalid argument, a payload over the limit (in two wordings),
\* a network timeout, a failure of no known class, and two failures whose
\* text says "timed out", one of them a rejected request.
CollabFailures ==
    {<<"[GoogleGenerativeAI Error]: ", "400 Bad Request">>,
     <<"[GoogleGenerativeAI Error]: ", "invalid argument">>,
     <<"File too large", " for inline data">>,
     <<"The request ", "exceeds maximum allowed size">>,
     <<"network ", "timeout", " at fetch">>,
     <<"quota exceeded">>,
     <<"The operation ", "timed out">>,
     <<"[GoogleGenerativeAI Error]: ", "400 Bad Request", ": the upload ", "timed out">>}

\* What generateContent settles with: a response, or a failure and its message.
CollabResults ==
    {[ok |-> TRUE, items |-> r, msg |-> <<>>] : r \in EventResponses}
        \cup {[ok |-> FALSE, items |-> <<>>, msg |-> m] : m \in CollabFailures}

\* Lines 139-144: the catch around the race.
InnerCatch(msg) ==
    IF Includes(msg, "timed out")
    THEN <<"The Gemini API request ", "timed out",
           ". Please try again or use a different video.">>
    ELSE msg

\* Lines 145-163: the catch around the whole analysis.
OuterCatch(msg) ==
    IF Includes(msg, "invalid argument") \/ Includes(msg, "400 Bad Request")
    THEN <<"Gemini API rejected the request. This could be due to: ...">>
    ELSE IF Includes(msg, "timeout")
    THEN <<"The Gemini API request ", "timed out",
           ". Try again later when the service might be less busy.">>
    ELSE IF Includes(msg, "File too large") \/ Includes(msg, "exceeds maximum allowed size")
    THEN <<"The video file is too large to process. ...">>
    ELSE <<"Failed to analyze video: ">> \o msg

\* Lines 322-324 and 366-368, and for the analyze_video tool lines 399-401.
EventCatch(k, msg) ==
    IF k = "analyze_video"
    THEN <<"Failed to analyze video: ">> \o msg
    ELSE <<"Failed to process video: ">> \o msg

\* Line 119: Promise.race settles once, with the first promise that settles.
Settle(winner, by) == IF winner = "none" THEN by ELSE winner

\* Mutation: removeSegments is called whatever the remove set holds.
ShouldRemove_Always(segs) == TRUE

\* Lines 313 and 357: segmentsToRemove.length > 0.
ShouldRemove(segs) == Len(segs) > 0

\* Mutation: the first pair is kept whatever the number of pairs.
ExactlyOne_AtLeastOne(segs) == Len(segs) >= 1

\* Line 284: segmentsToKeep.length !== 1 throws.
ExactlyOne(segs) == Len(segs) = 1

\* The probe results of an event-driven call: those above, a duration with a
\* trailing letter, the duration that ends where the late token points, and
\* a duration a tenth of a microsecond over MaxSec, which toFixed(6) rounds
\* to MaxSec.
EventProbeResults ==
    ProbeResults
        \cup {ProbeResult(TRUE, TRUE, JsStr(IntChars(MaxSec) \o <<"x">>)),
              ProbeResult(TRUE, TRUE, JsStr(<<"6", "1", ".", "0", "2", "9", "0", "0", "0">>)),
              ProbeResult(TRUE, TRUE,
                          JsStr(IntChars(MaxSec) \o <<".", "0", "0", "0", "0", "0", "0", "1">>))}

\* What the steps of the analysis leave alone.
PipelineUnchanged ==
    UNCHANGED <<opTotal, parts, partIdx, partPaths, tempFiles, toolArgs, lastOutcome,
                concatInput, releases, returned, output, fs>>

\* analyzeVideoWithGemini lines 63-76, called at line 280, 351 or 392: the key
\* is tested outside the try block, so the message of its error reaches the
\* caller's catch as it is; the path is tested inside it; then the video
\* information is awaited.
EnterAnalysis(o, k, videoPath) ==
    LET pathError == validatePath(fs, videoPath, TRUE)
        pathMessage == IF pathError = "PathRequired"
                       THEN <<"File path is required">>
                       ELSE <<"Input file does not exist: ", videoPath>>
    IN  IF KeyMissing(apiKey)
        THEN /\ message' = [message EXCEPT ![o] = EventCatch(k, KeyMissingMessage)]
             /\ error' = [error EXCEPT ![o] = "ApiKeyMissing"]
             /\ pc' = [pc EXCEPT ![o] = "failed"]
        ELSE IF pathError # "none"
        THEN /\ message' = [message EXCEPT ![o] = EventCatch(k, OuterCatch(pathMessage))]
             /\ error' = [error EXCEPT ![o] = "AnalysisFailed"]
             /\ pc' = [pc EXCEPT ![o] = "failed"]
        ELSE /\ pc' = [pc EXCEPT ![o] = "analysisProbing"]
             /\ UNCHANGED <<error, message>>

\* removeEventSegments lines 272-275 and deleteEventSegments lines 333-346:
\* the paths are checked and ensureDirectoryExists is awaited. The output
\* path, which deleteEventSegments completes with a file name when it has no
\* video extension, is "output" in the encoder calls of the call.
StartEvent(o, k, args) ==
    /\ Arrives(o)
    /\ kind' = [kind EXCEPT ![o] = k]
    /\ toolArgs' = [toolArgs EXCEPT ![o] = args]
    /\ UNCHANGED <<opSegments, opTotal, parts, partIdx, partPaths, lastOutcome,
                   concatInput, returned, output, opProbe, eventVars>>
    /\ LET inputError == validatePath(fs, args.inputPath, TRUE)
           outputError == validatePath(fs, args.outputPath, FALSE)
       IN  IF inputError # "none" THEN Reject(o, inputError)
           ELSE IF outputError # "none" THEN Reject(o, outputError)
           ELSE /\ pc' = [pc EXCEPT ![o] = "ensuring"]
                /\ UNCHANGED <<tempFiles, calls, fs, error, releases>>

\* Lines 275-280 and 346-351: ensureDirectoryExists throws, outside the try
\* block, or it returns and the analysis is called.
EventReady(o, outcome) ==
    /\ pc[o] = "ensuring"
    /\ kind[o] \in {"removeEventSegments", "deleteEventSegments"}
    /\ PipelineUnchanged
    /\ UNCHANGED <<kind, opSegments, calls, opProbe, timer, collab, raceWinner,
                   geminiItems, eventSegments>>
    /\ IF outcome # "ok"
       THEN /\ error' = [error EXCEPT ![o] = "DirectoryFailed"]
            /\ pc' = [pc EXCEPT ![o] = "failed"]
            /\ UNCHANGED message
       ELSE EnterAnalysis(o, kind[o], toolArgs[o].inputPath)

\* analyze_video lines 387-392: the path is checked, outside the try block,
\* and the analysis is called.
StartAnalyzeVideo(o, filePath) ==
    /\ Arrives(o)
    /\ kind' = [kind EXCEPT ![o] = "analyze_video"]
    /\ toolArgs' = [toolArgs EXCEPT ![o] = [filePath |-> filePath]]
    /\ UNCHANGED <<opSegments, opTotal, parts, partIdx, partPaths, tempFiles, lastOutcome,
                   concatInput, releases, returned, output, fs, calls, opProbe, timer,
                   collab, raceWinner, geminiItems, eventSegments>>
    /\ IF validatePath(fs, filePath, TRUE) # "none"
       THEN /\ error' = [error EXCEPT ![o] = validatePath(fs, filePath, TRUE)]
            /\ pc' = [pc EXCEPT ![o] = "failed"]
            /\ UNCHANGED message
       ELSE EnterAnalysis(o, "analyze_video", filePath)

\* The analysis throws msg inside its try block: the catch of line 145, then
\* that of line 322, 366 or 399.
AnalysisFail(o, msg) ==
    /\ message' = [message EXCEPT ![o] = EventCatch(kind[o], OuterCatch(msg))]
    /\ error' = [error EXCEPT ![o] = "AnalysisFailed"]
    /\ pc' = [pc EXCEPT ![o] = "failed"]
    /\ PipelineUnchanged
    /\ UNCHANGED <<kind, opSegments, calls, opProbe, geminiItems, eventSegments>>

\* analyzeVideoWithGemini lines 76-130: the video information returns. When
\* getVideoInfo rejected, its output is not JSON or the video file cannot be
\* read (read is FALSE), the error, whose text is msg, goes to the catch of
\* line 145; otherwise the timer is set and generateContent is called.
AnalysisProbeReturn(o, probe, read, msg) ==
    /\ pc[o] = "analysisProbing"
    /\ IF ~probe.ok \/ ~probe.json \/ ~read
       THEN AnalysisFail(o, msg) /\ UNCHANGED <<timer, collab, raceWinner>>
       ELSE /\ timer' = [timer EXCEPT ![o] = "armed"]
            /\ collab' = [collab EXCEPT ![o] = "pending"]
            /\ pc' = [pc EXCEPT ![o] = "analyzing"]
            /\ PipelineUnchanged
            /\ UNCHANGED <<kind, opSegments, calls, error, opProbe, raceWinner,
                           geminiItems, eventSegments, message>>

\* A throw inside the try block of lines 277-324 or 348-368, after the analysis.
EventFail(o, err) ==
    /\ error' = [error EXCEPT ![o] = err]
    /\ pc' = [pc EXCEPT ![o] = "failed"]
    /\ UNCHANGED <<opSegments, calls>>

\* removeSegments is called: the sort of line 202, then the probe is awaited.
EnterRemoveSegments(o, segs) ==
    /\ opSegments' = [opSegments EXCEPT ![o] = SortSegments(segs)]
    /\ pc' = [pc EXCEPT ![o] = "probing"]
    /\ UNCHANGED <<calls, error>>

\* Lines 316-318 and 360-362: the copy command is issued.
StartCopy(o) ==
    /\ calls' = [calls EXCEPT ![o] = Append(@, Call("copy", <<>>, <<>>, "output"))]
    /\ pc' = [pc EXCEPT ![o] = "copying"]
    /\ UNCHANGED <<opSegments, error>>

\* Lines 132-138, then 392-398, 280-290 or 351-362: the race resolved with
\* the response. analyze_video returns it. removeEventSegments takes the one
\* pair and awaits the probe. deleteEventSegments hands its array to
\* removeSegments, whose sort of line 202 orders that same array in place.
AnalysisReturns(o, items) ==
    /\ geminiItems' = [geminiItems EXCEPT ![o] = items]
    /\ PipelineUnchanged
    /\ UNCHANGED <<kind, opProbe, message>>
    /\ LET pairs == PairsOf(MatchAll(AnalysisPrefix \o TextOf(items), 1))
       IN  IF kind[o] = "analyze_video"
           THEN /\ pc' = [pc EXCEPT ![o] = "done"]
                /\ UNCHANGED <<opSegments, calls, error, eventSegments>>
           ELSE IF pairs = <<>>
           THEN EventFail(o, "NoTimestampsFound") /\ UNCHANGED eventSegments
           ELSE IF kind[o] = "removeEventSegments"
           THEN IF ~ExactlyOne(pairs)
                THEN EventFail(o, "NotOneSegment") /\ UNCHANGED eventSegments
                ELSE /\ eventSegments' = [eventSegments EXCEPT ![o] = pairs]
                     /\ pc' = [pc EXCEPT ![o] = "keepProbing"]
                     /\ UNCHANGED <<opSegments, calls, error>>
           ELSE IF ShouldRemove(pairs)
           THEN /\ eventSegments' = [eventSegments EXCEPT ![o] = SortSegments(pairs)]
                /\ EnterRemoveSegments(o, pairs)
           ELSE /\ eventSegments' = [eventSegments EXCEPT ![o] = pairs]
                /\ StartCopy(o)

\* Line 115: the timer fires. The race is rejected if nothing settled it before.
TimerFires(o) ==
    /\ timer[o] = "armed"
    /\ timer' = [timer EXCEPT ![o] = "fired"]
    /\ UNCHANGED collab
    /\ LET winner == Settle(raceWinner[o], "timer")
       IN  /\ raceWinner' = [raceWinner EXCEPT ![o] = winner]
           /\ IF winner # raceWinner[o]
              THEN AnalysisFail(o, InnerCatch(RaceTimeoutMessage))
              ELSE UNCHANGED <<opVars, opProbe, geminiItems, eventSegments, message>>

\* Lines 120-144: generateContent settles. The race takes its result if
\* nothing settled it before.
CollaboratorSettles(o, result) ==
    /\ collab[o] = "pending"
    /\ collab' = [collab EXCEPT ![o] = "settled"]
    /\ UNCHANGED timer
    /\ LET winner == Settle(raceWinner[o], "collaborator")
       IN  /\ raceWinner' = [raceWinner EXCEPT ![o] = winner]
           /\ IF winner = raceWinner[o]
              THEN UNCHANGED <<opVars, opProbe, geminiItems, eventSegments, message>>
              ELSE IF result.ok
              THEN AnalysisReturns(o, result.items)
              ELSE AnalysisFail(o, InnerCatch(result.msg))

\* removeEventSegments lines 290-319: the probe returns, the remove set is
\* built around the interval to keep, and removeSegments or the copy follows.
KeepProbeReturn(o, probe) ==
    /\ pc[o] = "keepProbing"
    /\ opProbe' = [opProbe EXCEPT ![o] = probe]
    /\ PipelineUnchanged
    /\ UNCHANGED <<kind, eventVars>>
    /\ IF ~probe.ok THEN EventFail(o, "ProbeFailed")
       ELSE IF ~probe.json \/ Falsy(probe.duration) THEN EventFail(o, "PreconditionFailed")
       ELSE IF ~parseTimeToSeconds(probe.duration).ok
       THEN EventFail(o, parseTimeToSeconds(probe.duration).err)
       ELSE LET segs == SegmentsToRemove(eventSegments[o][1], TotalDuration(probe.duration))
            IN  IF ShouldRemove(segs) THEN EnterRemoveSegments(o, segs) ELSE StartCopy(o)

\* Lines 318 and 361: the copy command returns.
CopyReturn(o, outcome) ==
    /\ pc[o] = "copying"
    /\ lastOutcome' = [lastOutcome EXCEPT ![o] = outcome]
    /\ returned' = [returned EXCEPT ![o] = @ + 1]
    /\ output' = [output EXCEPT ![o] =
                    IF outcome = "ok" THEN "written"
                    ELSE IF outcome = "failedPartial" THEN "partial" ELSE @]
    /\ error' = [error EXCEPT ![o] = IF outcome = "ok" THEN "none" ELSE "CopyFailed"]
    /\ pc' = [pc EXCEPT ![o] = IF outcome = "ok" THEN "done" ELSE "failed"]
    /\ UNCHANGED <<kind, opSegments, opTotal, parts, partIdx, partPaths, tempFiles,
                   toolArgs, calls, concatInput, releases, fs, opProbe, eventVars>>

\* The probe of line 290 draws from EventProbeResults; the probe of line 205,
\* which deleteEventSegments reaches through removeSegments, draws from
\* ProbeResults, as it does in Next.
EventNext ==
    /\ \E o \in Ops :
          \/ \E k \in {"removeEventSegments", "deleteEventSegments"}, args \in PathArgLists :
                StartEvent(o, k, args)
          \/ \E outcome \in DirectoryOutcomes : EventReady(o, outcome)
          \/ \E args \in PathArgLists : StartAnalyzeVideo(o, args.inputPath)
          \/ \E probe \in ProbeResults, read \in BOOLEAN, msg \in ReadFailures :
                AnalysisProbeReturn(o, probe, read, msg)
          \/ TimerFires(o)
          \/ \E result \in CollabResults : CollaboratorSettles(o, result)
          \/ \E probe \in EventProbeResults : KeepProbeReturn(o, probe)
          \/ \E outcome \in EncoderOutcomes : CopyReturn(o, outcome)
          \/ (\E probe \in ProbeResults : ProbeReturn(o, probe)) /\ UNCHANGED eventVars
          \/ (\E outcome \in EncoderOutcomes : ExtractReturn(o, outcome)) /\ UNCHANGED eventVars
          \/ (\E outcome \in EncoderOutcomes : ConcatReturn(o, outcome)) /\ UNCHANGED eventVars
    /\ UNCHANGED <<planVars, textVars, timeVars, stepsLeft, apiKey>>

\* The removeEventSegments, deleteEventSegments and analyze_video calls in
\* flight, interleaved at their awaits, from the arrival of each to its end.
EventSpec == Init /\ [][EventNext]_vars

\* ------------------------------------------------------------ apply_filter_template
\* Lines 1002-1042: the next step of the template is issued into
\* temp_<tempFiles.length>.mp4, or the final command when no step is left.
NextFilterStep(o, fsv, files, steps) ==
    LET tempOutput == <<"temp_0.mp4", "temp_1.mp4", "temp_2.mp4">>[Len(files) + 1]
    IN  /\ fs' = fsv
        /\ UNCHANGED <<error, releases>>
        /\ IF steps # <<>>
           THEN /\ tempFiles' = [tempFiles EXCEPT ![o] = Append(files, tempOutput)]
                /\ calls' = [calls EXCEPT ![o] = Append(@, Call(Head(steps), <<>>, <<>>, tempOutput))]
                /\ stepsLeft' = [stepsLeft EXCEPT ![o] = Tail(steps)]
                /\ pc' = [pc EXCEPT ![o] = "filtering"]
           ELSE /\ tempFiles' = [tempFiles EXCEPT ![o] = files]
                /\ calls' = [calls EXCEPT ![o] = Append(@, Call("final", <<>>, <<>>, "output"))]
                /\ stepsLeft' = [stepsLeft EXCEPT ![o] = <<>>]
                /\ pc' = [pc EXCEPT ![o] = "finalizing"]

\* Lines 985-995: the paths are checked, the template file is looked for
\* (found is what existsSync returns) and ensureDirectoryExists is awaited.
StartFilterTemplate(o, args, found) ==
    /\ Arrives(o)
    /\ kind' = [kind EXCEPT ![o] = "apply_filter_template"]
    /\ toolArgs' = [toolArgs EXCEPT ![o] = args]
    /\ UNCHANGED <<opSegments, opTotal, parts, partIdx, partPaths, lastOutcome,
                   concatInput, returned, output, stepsLeft>>
    /\ LET inputError == validatePath(fs, args.inputPath, TRUE)
           outputError == validatePath(fs, args.outputPath, FALSE)
       IN  IF inputError # "none" THEN Reject(o, inputError)
           ELSE IF outputError # "none" THEN Reject(o, outputError)
           ELSE IF ~found THEN Reject(o, "TemplateNotFound")
           ELSE /\ pc' = [pc EXCEPT ![o] = "ensuring"]
                /\ UNCHANGED <<tempFiles, calls, fs, error, releases>>

\* Lines 995-1016: ensureDirectoryExists throws, or it returns and the
\* template is read: readFileSync or JSON.parse throws (parsed is FALSE), or
\* the first command of the template is issued. No try block is around them.
FilterTemplateReady(o, outcome, parsed, template) ==
    /\ pc[o] = "ensuring"
    /\ kind[o] = "apply_filter_template"
    /\ UNCHANGED <<kind, opSegments, opTotal, parts, partIdx, partPaths, toolArgs,
                   lastOutcome, concatInput, returned, output>>
    /\ IF outcome # "ok" THEN Reject(o, "DirectoryFailed") /\ UNCHANGED stepsLeft
       ELSE IF ~parsed THEN Reject(o, "TemplateUnreadable") /\ UNCHANGED stepsLeft
       ELSE NextFilterStep(o, fs, <<>>, template)

\* Lines 1016, 1026 and 1037: a filter step returns. A rejection leaves the
\* case block at once; otherwise the next command is issued.
FilterReturn(o, outcome) ==
    /\ pc[o] = "filtering"
    /\ lastOutcome' = [lastOutcome EXCEPT ![o] = outcome]
    /\ returned' = [returned EXCEPT ![o] = @ + 1]
    /\ UNCHANGED <<kind, opSegments, opTotal, parts, partIdx, partPaths, toolArgs,
                   concatInput, output>>
    /\ LET files == tempFiles[o]
           fsv == AfterEncode(fs, files[Len(files)], outcome, o, NoPart)
       IN  IF outcome # "ok"
           THEN /\ fs' = fsv
                /\ error' = [error EXCEPT ![o] = "FilterFailed"]
                /\ pc' = [pc EXCEPT ![o] = "failed"]
                /\ UNCHANGED <<tempFiles, calls, releases, stepsLeft>>
           ELSE NextFilterStep(o, fsv, files, stepsLeft[o])

\* Lines 1042-1048: the final command returns; the temp files are deleted
\* after it when it succeeded.
FinalReturn(o, outcome) ==
    /\ pc[o] = "finalizing"
    /\ lastOutcome' = [lastOutcome EXCEPT ![o] = outcome]
    /\ returned' = [returned EXCEPT ![o] = @ + 1]
    /\ output' = [output EXCEPT ![o] =
                    IF outcome = "ok" THEN "written"
                    ELSE IF outcome = "failedPartial" THEN "partial" ELSE @]
    /\ UNCHANGED <<kind, opSegments, opTotal, parts, partIdx, partPaths, tempFiles,
                   toolArgs, calls, concatInput, stepsLeft>>
    /\ IF outcome = "ok"
       THEN /\ fs' = ReleaseAll(fs, tempFiles[o])
            /\ releases' = [releases EXCEPT ![o] = @ + 1]
            /\ pc' = [pc EXCEPT ![o] = "done"]
            /\ UNCHANGED error
       ELSE /\ error' = [error EXCEPT ![o] = "FilterFailed"]
            /\ pc' = [pc EXCEPT ![o] = "failed"]
            /\ UNCHANGED <<fs, releases>>

\* The templates: the colour look (curves, eq and vignette), fps and noise,
\* each present or absent.
FilterNext ==
    /\ \E o \in Ops :
          \/ \E args \in PathArgLists, found \in BOOLEAN : StartFilterTemplate(o, args, found)
          \/ \E outcome \in DirectoryOutcomes, parsed \in BOOLEAN,
                look \in SUBSET {"look"}, fps \in SUBSET {"fps"}, noise \in SUBSET {"noise"} :
                FilterTemplateReady(o, outcome, parsed,
                                    (IF look = {} THEN <<>> ELSE <<"look">>)
                                       \o (IF fps = {} THEN <<>> ELSE <<"fps">>)
                                       \o (IF noise = {} THEN <<>> ELSE <<"noise">>))
          \/ \E outcome \in EncoderOutcomes : FilterReturn(o, outcome)
          \/ \E outcome \in EncoderOutcomes : FinalReturn(o, outcome)
    /\ UNCHANGED <<planVars, opProbe, eventVars, textVars, timeVars>>

\* Interleaved apply_filter_template calls.
FilterSpec == KeyedInit /\ [][FilterNext]_vars

PlanNext ==
    /\ \/ planPc = "idle" /\ \E segs \in SegmentLists : StartDelete(segs)
       \/ planPc = "idle" /\ \E keep \in KeepPairs : StartKeep(keep)
       \/ \E dur \in Durations : KeepProbe(dur)
       \/ PlanSort
       \/ \E dur \in Durations : PlanProbe(dur)
       \/ PlanWalk
       \/ PlanTail
    /\ UNCHANGED <<opVars, opProbe, eventVars, textVars, timeVars, stepsLeft>>

\* The planning of one removeSegments or removeEventSegments call, step by step.
PlanSpec == KeyedInit /\ [][PlanNext]_vars

TextNext ==
    /\ \/ \E items \in Responses : Respond(items)
       \/ MatchTimestamps
       \/ PairTimestamps
    /\ UNCHANGED <<planVars, opVars, opProbe, eventVars, timeVars, stepsLeft>>

\* One extractTimestampsFromResponse call on a response text.
TextSpec == KeyedInit /\ [][TextNext]_vars

ParseNext ==
    /\ \E f \in TimeForms : CallParse(f)
    /\ UNCHANGED <<planVars, opVars, opProbe, eventVars, textVars, stepsLeft>>

\* One parseTimeToSeconds call.
ParseSpec == KeyedInit /\ [][ParseNext]_vars

\* ------------------------------------------------------------ planner claims
\* Sampled instants: every interval bound of the model's inputs is a multiple
\* of half a second, so a grid of quarter seconds k / 4 has a point in every
\* cell between two bounds.
Instants == {Canon(FALSE, BigOf(k), -2) : k \in 0..(4 * (MaxSec + 2))}

InRemove(t, seg) == NumLeq(Secs(seg.startTime), t) /\ NumLess(t, Secs(seg.endTime))

InPart(t, part) == NumLeq(Secs(part.start), t) /\ NumLess(t, Secs(part.end))

Removed(t) == \E i \in DOMAIN suppliedSegments : InRemove(t, suppliedSegments[i])

PartsHolding(t) == {i \in DOMAIN partsToKeep : InPart(t, partsToKeep[i])}

PlanEnded == planPc \in {"planned", "empty"}

WellFormedRemoveSet ==
    \A i \in DOMAIN suppliedSegments :
        NumLess(Secs(suppliedSegments[i].startTime), Secs(suppliedSegments[i].endTime))

\* C5: once removeSegments has planned a remove set of intervals [start, end)
\* with end > start (overlapping, nested and equal-start ones included), no
\* instant of a retained interval lies inside a remove interval.
C5_RetainAvoidsRemove ==
    (PlanEnded /\ WellFormedRemoveSet) =>
        \A t \in Instants : PartsHolding(t) # {} => ~Removed(t)

\* C6: for a remove set whose intervals all have end > start, every instant of
\* [0, D) that lies in no remove interval lies in exactly one retained
\* interval, and a single remove interval [s, e) with 0 < s < e < D yields
\* exactly [0, s), [e, D).
C6_NothingDropped ==
    (PlanEnded /\ WellFormedRemoveSet) =>
        /\ \A t \in Instants :
              (NumLess(t, Secs(totalDuration)) /\ ~Removed(t)) => Cardinality(PartsHolding(t)) = 1
        /\ (/\ Len(suppliedSegments) = 1
            /\ NumLess(Zero, Secs(suppliedSegments[1].startTime))
            /\ NumLess(Secs(suppliedSegments[1].endTime), Secs(totalDuration)))
           => partsToKeep = << [start |-> ZeroTime, end |-> suppliedSegments[1].startTime],
                               [start |-> suppliedSegments[1].endTime, end |-> totalDuration] >>

\* C6 witness: two overlapping well-formed remove intervals were planned into
\* a head part and a tail part.
C6_Witness ==
    /\ planPc = "planned"
    /\ planMode = "delete"
    /\ Len(suppliedSegments) = 2
    /\ WellFormedRemoveSet
    /\ NumLess(Secs(suppliedSegments[2].startTime), Secs(suppliedSegments[1].endTime))
    /\ NumLess(Secs(suppliedSegments[1].startTime), Secs(suppliedSegments[2].startTime))
    /\ Len(partsToKeep) = 2

\* C7: the cursor starts at 0 and, for a remove set of intervals with
\* end > start, never moves back when the walk consumes a remove interval.
C7_CursorMonotonic ==
    /\ [](planPc = "walk" /\ walkIdx = 1 => Secs(prevEnd) = Zero)
    /\ [][(planPc = "walk" /\ walkIdx' = walkIdx + 1 /\ WellFormedRemoveSet)
            => NumLeq(Secs(prevEnd), Secs(prevEnd'))]_vars

\* C8: the retain set handed to extraction is non-empty interval by interval
\* and increasing: each part starts at or after the end of the previous one.
C8_RetainIncreasing ==
    planPc = "planned" =>
        /\ \A i \in DOMAIN partsToKeep : NumLess(Secs(partsToKeep[i].start), Secs(partsToKeep[i].end))
        /\ \A i \in DOMAIN partsToKeep :
              i > 1 => NumLeq(Secs(partsToKeep[i - 1].end), Secs(partsToKeep[i].start))

\* The remove set the keep-one mode is said to synthesize, for the total
\* duration removeEventSegments read (line 301).
ExpectedRemoveSet ==
    (IF NumLess(Zero, Secs(segmentToKeep.startTime))
     THEN <<Segment(ZeroTime, segmentToKeep.startTime)>> ELSE <<>>)
    \o (IF NumLess(Secs(segmentToKeep.endTime), Secs(keepTotalDuration))
        THEN <<Segment(segmentToKeep.endTime, keepTotalDuration)>> ELSE <<>>)

\* The retain set of the keep-one mode: what removeSegments planned, or, when
\* no remove interval was synthesized, the complement of the empty remove set.
KeepRetainSet ==
    IF planPc = "copy" THEN PartsToKeep(<<>>, keepTotalDuration) ELSE partsToKeep

KeepIsRetained ==
    /\ suppliedSegments = ExpectedRemoveSet
    /\ Len(KeepRetainSet) = 1
    /\ Secs(KeepRetainSet[1].start) = Secs(segmentToKeep.startTime)
    /\ Secs(KeepRetainSet[1].end) = Secs(segmentToKeep.endTime)

KeepEnded == planMode = "keep" /\ planPc \in {"planned", "empty", "copy"}

\* The source has one total duration: the probe of removeSegments (line 205),
\* when there was one, reported what the probe of removeEventSegments (line
\* 290) had reported.
OneDuration == planPc # "copy" => Secs(totalDuration) = Secs(keepTotalDuration)

\* C10 as stated: for every keep interval with start < end and every duration,
\* the synthesized remove set is [0, keep.start) and [keep.end, D) and its
\* complement is exactly the keep interval.
C10_KeepRoundTrip ==
    (/\ KeepEnded
     /\ OneDuration
     /\ NumLess(Secs(segmentToKeep.startTime), Secs(segmentToKeep.endTime)))
        => KeepIsRetained

\* C10 amended: the same for every keep interval with start < end that ends
\* at or before the total duration of the source.
C10_KeepRoundTripWithinDuration ==
    (/\ KeepEnded
     /\ OneDuration
     /\ NumLess(Secs(segmentToKeep.startTime), Secs(segmentToKeep.endTime))
     /\ NumLeq(Secs(segmentToKeep.endTime), Secs(keepTotalDuration)))
        => KeepIsRetained

\* C10 witness: a keep interval strictly inside the source was planned from
\* two synthesized remove intervals.
C10_Witness ==
    /\ planMode = "keep"
    /\ planPc = "planned"
    /\ OneDuration
    /\ Len(suppliedSegments) = 2
    /\ NumLess(Secs(segmentToKeep.startTime), Secs(segmentToKeep.endTime))
    /\ Len(partsToKeep) = 1

\* ------------------------------------------------------------ scratch-file claims
\* C1: no two tool calls that are both in flight have recorded the same
\* scratch path.
C1_DistinctScratchPaths ==
    \A o1 \in Ops, o2 \in Ops :
        (o1 # o2 /\ Running(o1) /\ Running(o2))
            => Range(tempFiles[o1]) \cap Range(tempFiles[o2]) = {}

OnlyRemoveSegments == \A o \in Ops : kind[o] \in {"none", "removeSegments"}

\* What the concat call of a removeSegments call is meant to read: its own
\* list, naming its own extracts of its own parts, in order.
OwnConcatInput(o) ==
    [read |-> TRUE,
     list |-> ManifestFile(o, [i \in 1..Len(parts[o]) |-> PartPath(i - 1)]),
     files |-> [i \in 1..Len(parts[o]) |-> ExtractFile(o, parts[o][i])]]

\* C2: among interleaved removeSegments calls, a step of one call leaves every
\* file written by another call in flight as it is, and the concat call of
\* each call reads exactly that call's own extracts of its own parts.
C2_ExclusiveOwnership ==
    /\ [][OnlyRemoveSegments' =>
            \A o \in Ops : \A p \in DOMAIN fs :
                (fs[p].writer = o /\ Running(o) /\ pc'[o] = pc[o] /\ partIdx'[o] = partIdx[o])
                    => (p \in DOMAIN fs' /\ fs'[p] = fs[p])]_vars
    /\ [](OnlyRemoveSegments =>
            \A o \in Ops : concatInput[o].read => concatInput[o] = OwnConcatInput(o))

\* C3: once a removeSegments call has ended, however it ended, no file it
\* wrote is left among the scratch files, and when it ran alone none of the
\* paths it recorded exists.
C3_NoResidue ==
    \A o \in Ops :
        (kind[o] = "removeSegments" /\ pc[o] \in Ended) =>
            /\ \A p \in DOMAIN fs : fs[p].writer # o
            /\ (\A o2 \in Ops \ {o} : pc[o2] = "idle")
                  => Range(tempFiles[o]) \cap DOMAIN fs = {}

\* C3 witness: one call ended by a failed second extraction that left a
\* partial file, another ended after its concat, and no scratch file is left.
C3_Witness ==
    \E o1 \in Ops, o2 \in Ops :
        /\ kind[o1] = "removeSegments" /\ kind[o2] = "removeSegments"
        /\ pc[o1] = "failed" /\ error[o1] = "ExtractionFailed"
        /\ lastOutcome[o1] = "failedPartial" /\ Len(tempFiles[o1]) = 2
        /\ pc[o2] = "done" /\ Len(tempFiles[o2]) = 3
        /\ fs = <<>>

\* C4: the cleanup of a removeSegments call runs exactly once, in the step
\* that ends the call and so after its last encoder call; it leaves none of
\* the recorded paths in place, a missing file does not change how the call
\* ends, and an ended call issues no further encoder call.
C4_ReleaseOnce ==
    /\ [](\A o \in Ops :
            kind[o] = "removeSegments" => releases[o] = IF pc[o] \in Ended THEN 1 ELSE 0)
    /\ [][\A o \in Ops :
            (kind[o] = "removeSegments" /\ pc[o] \notin Ended /\ pc'[o] \in Ended) =>
                /\ releases'[o] = releases[o] + 1
                /\ Range(tempFiles'[o]) \cap DOMAIN fs' = {}
                /\ (error'[o] = "none") <=> (pc[o] = "concatenating" /\ lastOutcome'[o] = "ok")]_vars
    /\ [][\A o \in Ops : pc[o] \in Ended => (pc'[o] = pc[o] /\ calls'[o] = calls[o])]_vars

\* C4 witness: a call running alone ended by a second extraction that failed
\* without writing its file, so the cleanup met a recorded path that was missing.
C4_Witness ==
    \E o \in Ops :
        /\ kind[o] = "removeSegments"
        /\ pc[o] = "failed" /\ error[o] = "ExtractionFailed"
        /\ lastOutcome[o] = "failed" /\ Len(tempFiles[o]) = 2
        /\ releases[o] = 1
        /\ \A o2 \in Ops \ {o} : pc[o2] = "idle"

\* C9: a removeSegments call whose plan has no part to keep has failed with
\* the empty-retain-set error, has issued no encoder call, has written no
\* list or other scratch file and has not written its output.
C9_EmptyRetainSetFails ==
    \A o \in Ops :
        (kind[o] = "removeSegments" /\ opTotal[o] # <<>> /\ parts[o] = <<>>) =>
            /\ pc[o] = "failed"
            /\ error[o] = "EmptyRetainSet"
            /\ calls[o] = <<>>
            /\ tempFiles[o] = <<>>
            /\ output[o] = "absent"
            /\ \A p \in DOMAIN fs : fs[p].writer # o

\* C9 witness: the remove interval covered the whole probed duration.
C9_Witness ==
    \E o \in Ops :
        /\ kind[o] = "removeSegments"
        /\ opTotal[o] # <<>>
        /\ Secs(opSegments[o][1].startTime) = Zero
        /\ Secs(opSegments[o][1].endTime) = Secs(opTotal[o])
        /\ parts[o] = <<>>
        /\ pc[o] = "failed"

\* ------------------------------------------------------------ pipeline claims
IsRemoveSegments(o) == kind[o] = "removeSegments"

\* The encoder calls of a call that have been issued and have not returned.
InFlight(o) == Len(calls[o]) - returned[o]

\* The calls a removeSegments call is to issue for its parts: one extraction
\* per part, in order, then one concat.
ExpectedCalls(o) ==
    [i \in 1..Len(parts[o]) |->
        Call("extract", parts[o][i].start, parts[o][i].end, PartPath(i - 1))]
    \o <<Call("concat", <<>>, <<>>, "output")>>

IsPrefix(a, b) == Len(a) <= Len(b) /\ SubSeq(b, 1, Len(a)) = a

\* C11: the encoder calls of a removeSegments call are, in order, one
\* extraction per retain interval bounded by that interval and then one
\* concat, all of them once the call has succeeded; a call is issued only
\* when every earlier one has returned, so at most one is in flight.
C11_SequentialCalls ==
    /\ [](\A o \in Ops : IsRemoveSegments(o) =>
            /\ IsPrefix(calls[o], ExpectedCalls(o))
            /\ InFlight(o) \in {0, 1}
            /\ pc[o] = "done" => (calls[o] = ExpectedCalls(o) /\ InFlight(o) = 0))
    /\ [][\A o \in Ops : (IsRemoveSegments(o) /\ calls'[o] # calls[o]) =>
            /\ Len(calls'[o]) = Len(calls[o]) + 1
            /\ returned'[o] = Len(calls[o])]_vars

\* C11 witness: a call with two retain intervals succeeded after two
\* extractions and one concat.
C11_Witness ==
    \E o \in Ops :
        /\ IsRemoveSegments(o) /\ pc[o] = "done"
        /\ Len(parts[o]) = 2 /\ Len(calls[o]) = 3 /\ returned[o] = 3

\* The step in which call o writes its concat list.
WritesManifest(o) == IsRemoveSegments(o) /\ pc[o] # "concatenating" /\ pc'[o] = "concatenating"

\* C12: when removeSegments writes the concat list, the list has one line per
\* extraction that succeeded, line i names the file extraction i wrote, which
\* is the extraction of retain interval i, and for a call running alone that
\* file holds the extract of retain interval i.
C12_ManifestInRetainOrder ==
    [][\A o \in Ops : WritesManifest(o) =>
        LET m == FileAt(fs', ConcatListPath)
        IN  /\ m.kind = "manifest" /\ m.writer = o
            /\ Len(m.lines) = returned'[o]
            /\ Len(m.lines) = Len(parts'[o])
            /\ \A i \in DOMAIN m.lines :
                  /\ m.lines[i] = calls[o][i].out
                  /\ calls[o][i].start = parts'[o][i].start
                  /\ calls[o][i].end = parts'[o][i].end
                  /\ (\A o2 \in Ops \ {o} : pc[o2] = "idle")
                        => FileAt(fs', m.lines[i]) = ExtractFile(o, parts'[o][i])]_vars

\* C12 witness: a call with two retain intervals has written a list of two
\* lines and awaits its concat.
C12_Witness ==
    \E o \in Ops :
        /\ IsRemoveSegments(o) /\ pc[o] = "concatenating"
        /\ Len(parts[o]) = 2
        /\ ConcatListPath \in DOMAIN fs
        /\ fs[ConcatListPath].writer = o
        /\ Len(fs[ConcatListPath].lines) = 2

\* C13: when an extraction of a removeSegments call fails, the call ends in
\* failure with the extraction error in that step: it issues no further
\* call, writes no concat list and leaves its output unwritten.
C13_ExtractionFailureAborts ==
    /\ [][\A o \in Ops :
            (IsRemoveSegments(o) /\ pc[o] = "extracting" /\ pc'[o] # pc[o]
                /\ lastOutcome'[o] # "ok") =>
                /\ pc'[o] = "failed"
                /\ error'[o] = "ExtractionFailed"
                /\ calls'[o] = calls[o]
                /\ \A p \in DOMAIN fs' : ~(fs'[p].writer = o /\ fs'[p].kind = "manifest")]_vars
    /\ [][\A o \in Ops :
            (IsRemoveSegments(o) /\ pc[o] = "extracting" /\ returned'[o] # returned[o]
                /\ lastOutcome'[o] # "ok") => pc'[o] = "failed"]_vars
    /\ [](\A o \in Ops : (IsRemoveSegments(o) /\ error[o] = "ExtractionFailed") =>
            /\ pc[o] = "failed"
            /\ output[o] = "absent"
            /\ calls[o] # <<>>
            /\ \A i \in DOMAIN calls[o] : calls[o][i].op = "extract")

\* C13 witness: the first of two extractions failed and the call ended with
\* one call issued.
C13_Witness ==
    \E o \in Ops :
        /\ IsRemoveSegments(o) /\ pc[o] = "failed" /\ error[o] = "ExtractionFailed"
        /\ Len(parts[o]) = 2 /\ Len(calls[o]) = 1

\* C14: a removeSegments call that has ended in failure has left nothing at
\* its output path.
C14_NoOutputOnFailure ==
    \A o \in Ops : (IsRemoveSegments(o) /\ pc[o] = "failed") => output[o] = "absent"

\* The phase of a removeSegments call: the position of its pc.
Phase(p) ==
    CASE p = "idle" -> "NotStarted"
      [] p = "probing" -> "Planning"
      [] p = "extracting" -> "Extracting"
      [] p = "concatenating" -> "Concatenating"
      [] p = "done" -> "Done"
      [] p = "failed" -> "Failed"

\* The moves of the phase that the state machine allows.
PhaseMoves ==
    {<<"NotStarted", "Planning">>, <<"Planning", "Extracting">>,
     <<"Extracting", "Extracting">>, <<"Extracting", "Concatenating">>,
     <<"Concatenating", "Done">>,
     <<"Planning", "Failed">>, <<"Extracting", "Failed">>, <<"Concatenating", "Failed">>}

\* C15: the phase of a removeSegments call moves only along Planning,
\* Extracting, Concatenating, Done, or from one of the first three to Failed;
\* it enters Concatenating only when every retain interval has been
\* extracted, and Done and Failed are never left.
C15_PhaseOrder ==
    [][\A o \in Ops : (IsRemoveSegments(o) /\ <<pc[o], partIdx[o]>> # <<pc'[o], partIdx'[o]>>) =>
        /\ <<Phase(pc[o]), Phase(pc'[o])>> \in PhaseMoves
        /\ Phase(pc'[o]) = "Concatenating" =>
              /\ Len(partPaths'[o]) = Len(parts'[o])
              /\ returned'[o] = Len(parts'[o])
              /\ \A i \in DOMAIN parts'[o] : calls'[o][i] = ExpectedCalls(o)'[i]]_vars

\* C15 witness: a call went through every phase and is Done after three
\* encoder calls.
C15_Witness ==
    \E o \in Ops :
        /\ IsRemoveSegments(o) /\ Phase(pc[o]) = "Done" /\ error[o] = "none"
        /\ Len(partPaths[o]) = 2 /\ output[o] = "written"

\* C16: when no probe or encoder call hangs, every removeSegments call that
\* has started ends, Done or Failed; in the step that ends it the cleanup has
\* run and none of its scratch paths exists; and while it has not ended it is
\* waiting for its probe or for exactly one encoder call.
C16_Terminates ==
    /\ \A o \in Ops : (IsRemoveSegments(o) /\ Running(o)) ~> (pc[o] \in Ended)
    /\ [][\A o \in Ops : (IsRemoveSegments(o) /\ Running(o) /\ pc'[o] \in Ended) =>
            /\ releases'[o] = 1
            /\ Range(tempFiles'[o]) \cap DOMAIN fs' = {}]_vars
    /\ [](\A o \in Ops : (IsRemoveSegments(o) /\ Running(o)) =>
            IF pc[o] = "probing" THEN InFlight(o) = 0 ELSE InFlight(o) = 1)

\* C16 witness: a call ended after a failed concat, its cleanup has run and
\* the files it recorded are gone.
C16_Witness ==
    \E o \in Ops :
        /\ IsRemoveSegments(o) /\ pc[o] = "failed" /\ error[o] = "ConcatenationFailed"
        /\ releases[o] = 1 /\ Len(tempFiles[o]) = 3
        /\ Range(tempFiles[o]) \cap DOMAIN fs = {}

\* ------------------------------------------------------------ pure-function claims
ExtractEnded == extractPc \in {"returned", "threw"}

\* C17: for a text with the timestamp tokens t_0 .. t_(n-1) in order of
\* appearance, extractTimestampsFromResponse throws the no-timestamps error
\* exactly when n < 2 and otherwise returns floor(n / 2) pairs, pair k being
\* (t_(2k), t_(2k+1)); the last token of an odd n is left out.
C17_PairsInOrder ==
    ExtractEnded =>
        LET t == TokensOf(responseItems)
            n == Len(t)
        IN  /\ (extractPc = "threw") <=> (n < 2)
            /\ (extractPc = "threw") <=> (extractError = "NoTimestampsFound")
            /\ extractPc = "returned" =>
                  /\ Len(timestamps) = n \div 2
                  /\ \A k \in 1..(n \div 2) :
                        timestamps[k] = [startTime |-> t[2 * k - 1], endTime |-> t[2 * k]]

\* C17 witness: a text with three tokens and another word gave one pair.
C17_Witness ==
    /\ extractPc = "returned"
    /\ Len(TokensOf(responseItems)) = 3
    /\ Len(responseItems) = 4
    /\ Len(timestamps) = 1

ParseCalled == timeForm.shape # "none"

\* C18: for a well-formed argument (H:M:S, M:S or seconds, the seconds with
\* or without a fraction, given as a string or as a number),
\* parseTimeToSeconds returns the number hours * 3600 + minutes * 60 + seconds
\* itself, with no rounding applied to it.
C18_ExactSeconds ==
    (ParseCalled /\ timeForm.shape \in WellFormedShapes) =>
        timeResult = Ok(FormValue(timeForm))

\* C18 witness: "01:02:03.5" was parsed to 3723.5.
C18_Witness ==
    /\ timeStr = JsStr(<<"0", "1", ":", "0", "2", ":", "0", "3", ".", "5">>)
    /\ timeResult.ok
    /\ timeResult.v = Thousandths(3723500)

\* C19: parseTimeToSeconds throws for every malformed argument: the
\* missing-time error for undefined and null, and another error for a string
\* that is empty after trimming, has ':' and not 2 or 3 parts, has a part
\* that is not a number, or has no ':' and is not a number.
C19_MalformedFails ==
    /\ (ParseCalled /\ timeForm.shape = "absent") =>
          (~timeResult.ok /\ timeResult.err = "MissingTime")
    /\ (ParseCalled /\ timeForm.shape = "malformed") =>
          (~timeResult.ok /\ timeResult.err # "MissingTime")

\* C20: every value parseTimeToSeconds returns is at least 0.
C20_NonNegative ==
    (ParseCalled /\ timeResult.ok) => NumLeq(Zero, timeResult.v)

\* ------------------------------------------------------------ planner claims, continued
\* C26: every part removeSegments hands to extraction lies within the source:
\* it starts at or after 0 and ends at or before the probed duration, also
\* when a remove interval starts or ends after the duration.
C26_RetainWithinSource ==
    (planPc = "planned" /\ WellFormedRemoveSet) =>
        \A i \in DOMAIN partsToKeep :
            /\ NumLeq(Zero, Secs(partsToKeep[i].start))
            /\ NumLeq(Secs(partsToKeep[i].end), Secs(totalDuration))

\* The remove intervals in every order the caller may supply them in.
Reorderings(segs) ==
    {[i \in DOMAIN segs |-> segs[f[i]]] : f \in Permutations(DOMAIN segs)}

\* C27: the parts removeSegments plans are the same for every order in which
\* the same remove intervals (each with end > start) are supplied.
C27_OrderIndependent ==
    (PlanEnded /\ planMode = "delete" /\ WellFormedRemoveSet) =>
        \A other \in Reorderings(suppliedSegments) :
            PartsToKeep(SortSegments(other), totalDuration) = partsToKeep

\* ------------------------------------------------------------ remove_segment claims
\* C28: a remove_segment call whose startTime is 0 issues no encoder call for
\* the empty part before the cut.
C28_NoEmptyLeadingPart ==
    \A o \in Ops :
        (kind[o] = "remove_segment" /\ Parses(toolArgs[o].startTime)
            /\ Secs(toolArgs[o].startTime) = Zero)
        => \A i \in DOMAIN calls[o] : calls[o][i].op # "part1"

\* ------------------------------------------------------------ event-driven claims
\* A count of seconds as the probe prints it: digits, with or without a fraction.
DecimalSeconds(s) ==
    /\ s # <<>>
    /\ IsDigit(s[1]) /\ IsDigit(s[Len(s)])
    /\ \A i \in DOMAIN s : IsDigit(s[i]) \/ s[i] = "."
    /\ Cardinality({i \in DOMAIN s : s[i] = "."}) <= 1

\* The probe returned, and what it returned is not parseable, has no
\* format.duration or has one that is not a time.
BadProbe(p) ==
    /\ p.ok
    /\ \/ ~p.json
       \/ p.duration.t # "string"
       \/ ~DecimalSeconds(p.duration.s)

\* The call left no scratch file and did not write its output.
NothingWritten(o) ==
    /\ calls[o] = <<>>
    /\ tempFiles[o] = <<>>
    /\ \A q \in DOMAIN fs : fs[q].writer # o
    /\ output[o] = "absent"

\* C21: when the duration probe's result is not parseable, has no
\* format.duration or has a format.duration that is not a valid time, the
\* call fails before any extraction or concat call, with no scratch file
\* created and the output not written.
C21_BadProbeFails ==
    \A o \in Ops :
        BadProbe(opProbe[o]) => (pc[o] = "failed" /\ NothingWritten(o))

\* The race of the call resolved with a response of the collaborator.
Responded(o) == raceWinner[o] = "collaborator" /\ error[o] # "AnalysisFailed"

\* The timestamp tokens the collaborator wrote in its response.
TokenCount(o) == Len(TokensOf(geminiItems[o]))

\* C22: a response with fewer than 2 timestamp tokens makes
\* removeEventSegments fail, and a response with no token makes
\* deleteEventSegments fail, in both cases before any extraction, concat or
\* copy call, so the output is not written.
C22_TooFewTokensFails ==
    \A o \in Ops :
        (/\ Responded(o)
         /\ \/ kind[o] = "removeEventSegments" /\ TokenCount(o) < 2
            \/ kind[o] = "deleteEventSegments" /\ TokenCount(o) = 0)
        => (pc[o] = "failed" /\ error[o] = "NoTimestampsFound" /\ NothingWritten(o))

\* C22 witness: removeEventSegments failed on a response with one token.
C22_Witness ==
    \E o \in Ops :
        /\ kind[o] = "removeEventSegments"
        /\ Responded(o)
        /\ TokenCount(o) = 1
        /\ error[o] = "NoTimestampsFound"

\* What the caller of call o is told when the 60 seconds ran out.
DeadlineMessage(o) ==
    <<IF kind[o] = "analyze_video" THEN "Failed to analyze video: "
                                   ELSE "Failed to process video: ",
      "Failed to analyze video: ", "The Gemini API request ",
      "timed out", ". Please try again or use a different video.">>

\* The timer ended the wait: the call failed with the message of the timeout.
TimedOutFails(o) ==
    raceWinner[o] = "timer" =>
        /\ pc[o] = "failed"
        /\ error[o] = "AnalysisFailed"
        /\ message[o] = DeadlineMessage(o)
        /\ NothingWritten(o)

\* A failure of the collaborator itself is told with another message.
FailureDistinct(o) ==
    (raceWinner[o] = "collaborator" /\ error[o] = "AnalysisFailed") =>
        (message[o] # <<>> /\ message[o] # DeadlineMessage(o))

\* A call that has ended stays as it ended, whatever settles afterwards.
EndIsFinal(o) ==
    pc[o] \in Ended =>
        /\ pc'[o] = pc[o]
        /\ error'[o] = error[o]
        /\ message'[o] = message[o]
        /\ calls'[o] = calls[o]
        /\ output'[o] = output[o]

\* The timer ends nothing but the wait for the collaborator.
TimerOnlyEndsAnalysis(o) ==
    (timer[o] = "armed" /\ timer'[o] = "fired" /\ pc[o] # "analyzing") =>
        /\ pc'[o] = pc[o]
        /\ error'[o] = error[o]
        /\ calls'[o] = calls[o]
        /\ returned'[o] = returned[o]

\* C23: when the collaborator has not settled after the 60 seconds, the call
\* fails with a timeout message that differs from the message of every
\* failure of the collaborator (rejection, payload too large, any other); a
\* result that arrives afterwards does not change the failure, and the timer
\* never ends a probe or an encoder call.
C23_TimeoutFails ==
    /\ [](\A o \in Ops : TimedOutFails(o) /\ FailureDistinct(o))
    /\ [][\A o \in Ops : EndIsFinal(o) /\ TimerOnlyEndsAnalysis(o)]_vars

\* An interval whose end is not after its start.
Reversed(seg) == NumLeq(Secs(seg.endTime), Secs(seg.startTime))

\* C24: an interval whose end is not greater than its start never reaches
\* extraction: a call whose interval to keep, or one of whose remove
\* intervals, has end <= start issues no extraction call.
C24_ReversedNeverExtracted ==
    \A o \in Ops :
        (\/ \E i \in DOMAIN eventSegments[o] : Reversed(eventSegments[o][i])
         \/ \E i \in DOMAIN opSegments[o] : Reversed(opSegments[o][i]))
        => \A i \in DOMAIN calls[o] : calls[o][i].op # "extract"

\* The probe gave a duration, and the one interval to keep of the call starts
\* at 0 and ends at or after totalDuration, the duration as line 301 writes it
\* with six decimals.
SpansSource(o, probe) ==
    /\ kind[o] = "removeEventSegments"
    /\ Len(eventSegments[o]) = 1
    /\ probe.ok /\ probe.json /\ ~Falsy(probe.duration)
    /\ parseTimeToSeconds(probe.duration).ok
    /\ Secs(eventSegments[o][1].startTime) = Zero
    /\ NumLeq(Secs(TotalDuration(probe.duration)), Secs(eventSegments[o][1].endTime))

\* The same of the last probe of the call.
KeepsWholeSource(o) == SpansSource(o, opProbe[o])

\* The first encoder call of a removeEventSegments call is the copy.
CopyIssued(o) ==
    /\ kind[o] = "removeEventSegments"
    /\ calls[o] # <<>>
    /\ calls[o][1].op = "copy"

\* C25: when the probe of removeEventSegments returns and the interval to
\* keep spans the whole source, the call issues the copy from the input to
\* the output; from then on the copy is its only encoder call, it creates no
\* scratch file, and it fails if the copy fails.
C25_WholeSourceIsCopied ==
    /\ [][\A o \in Ops :
            (pc[o] = "keepProbing" /\ SpansSource(o, opProbe'[o])) =>
                (pc'[o] = "copying" /\ CopyIssued(o)')]_vars
    /\ [](\A o \in Ops :
            CopyIssued(o) =>
                /\ calls[o] = <<Call("copy", <<>>, <<>>, "output")>>
                /\ tempFiles[o] = <<>>
                /\ \A q \in DOMAIN fs : fs[q].writer # o
                /\ \/ pc[o] = "copying" /\ returned[o] = 0
                   \/ pc[o] = "done" /\ lastOutcome[o] = "ok" /\ output[o] = "written"
                   \/ pc[o] = "failed" /\ lastOutcome[o] \in {"failed", "failedPartial"})

\* C25 witness: the whole source was kept and the copy succeeded.
C25_Witness ==
    \E o \in Ops :
        /\ KeepsWholeSource(o)
        /\ pc[o] = "done"
        /\ output[o] = "written"
        /\ returned[o] = 1

\* The pairs the tokens of the response make, two at a time, in their order.
TokenPairsOf(o) ==
    LET toks == TokensOf(geminiItems[o])
    IN  [i \in 1..(Len(toks) \div 2) |->
            [startTime |-> toks[2 * i - 1], endTime |-> toks[2 * i]]]

\* The call went past the test on the number of pairs.
WentOn(o) ==
    \/ pc[o] \in {"keepProbing", "probing", "copying", "extracting", "concatenating", "done"}
    \/ opProbe[o] # ProbeResult(FALSE, FALSE, JsNull)
    \/ calls[o] # <<>>

\* C30: removeEventSegments goes on only with exactly one pair; a response
\* with four or more tokens makes it fail before the duration probe and
\* before any encoder call, with nothing written. deleteEventSegments takes
\* any number of pairs from one up and passes them all to removeSegments.
C30_ExactlyOnePairToKeep ==
    \A o \in Ops :
        /\ (kind[o] = "removeEventSegments" /\ Responded(o) /\ TokenCount(o) >= 4) =>
              /\ pc[o] = "failed"
              /\ error[o] = "NotOneSegment"
              /\ opProbe[o] = ProbeResult(FALSE, FALSE, JsNull)
              /\ NothingWritten(o)
        /\ (kind[o] = "removeEventSegments" /\ WentOn(o)) =>
              (Len(TokenPairsOf(o)) = 1 /\ eventSegments[o] = TokenPairsOf(o))
        /\ (kind[o] = "deleteEventSegments" /\ Responded(o) /\ TokenCount(o) >= 2) =>
              /\ WentOn(o)
              /\ opSegments[o] = SortSegments(TokenPairsOf(o))

\* C30 witness: removeEventSegments failed on two pairs, having probed nothing.
C30_Witness ==
    \E o \in Ops :
        /\ kind[o] = "removeEventSegments"
        /\ Responded(o)
        /\ TokenCount(o) = 4
        /\ error[o] = "NotOneSegment"
        /\ opProbe[o] = ProbeResult(FALSE, FALSE, JsNull)

\* ------------------------------------------------------------ apply_filter_template claims
\* C29: when an apply_filter_template call has ended, in success or in
\* failure, no temp file it wrote is left.
C29_FilterTempsDeleted ==
    \A o \in Ops :
        (kind[o] = "apply_filter_template" /\ pc[o] \in Ended) =>
            \A q \in DOMAIN fs : fs[q].writer # o

====
